---- MODULE Spec2Model ----
(***************************************************************************)
(* DynamoDbRepository (src/src/DynamoDbRepository.ts) and the DynamoDB     *)
(* table it talks to.  The repository object holds no mutable state of its *)
(* own (a client and a table name); all state is the table, plus the       *)
(* position of the operation in progress.  The table is composite-keyed    *)
(* (hash PK_ATTRIBUTE, range SK_ATTRIBUTE) and carries one global          *)
(* secondary index whose key attributes are `${index}Pk` / `${index}Sk`.   *)
(* Attribute values are numbers; a JavaScript object is a function from    *)
(* attribute names to numbers or Undefined, a marshalled item a function   *)
(* from attribute names to tagged values <<"N", v>>.  The module also      *)
(* covers consumedCapacityMiddleware                                       *)
(* (src/src/consumed-capacity-middleware.ts) on the client's stack.        *)
(***************************************************************************)
EXTENDS Integers, Sequences, FiniteSets, TLC

VARIABLES
    store,      \* the table: key <<pk, sk>> -> marshalled item
    pc,         \* position of the repository operation in progress
    op,         \* the operation in progress or just finished, with its arguments
    ret,        \* value the operation's promise resolved with (<<>> is undefined)
    err,        \* error the operation's promise rejected with ("" when none)
    lastPut,    \* history: <<key, record>> of the most recent putItem, <<>> if none
    chunks,     \* batchGetItems: one entry per key page, the BatchGetItemCommand
                \* sent for it and the state of its promise
    pages,      \* getItems: the page requests the paginator has sent, in order
    collected,  \* getItems: the keys / items array filled from the pages
    consumedCapacityRegister
                \* the details onConsumedCapacity was invoked with, in order

vars == <<store, pc, op, ret, err, lastPut, chunks, pages, collected,
          consumedCapacityRegister>>

----------------------------------------------------------------------------
(* Bounds of the model *)

MaxSk == 2          \* sort key values 1..MaxSk of the keys operations are called with
MaxKeys == 201      \* longest run of distinct keys handed to batchGetItems

(* Names used by the source *)

PK_ATTRIBUTE == "pk"
SK_ATTRIBUTE == "sk"
Undefined == -1     \* the JavaScript value undefined inside an object

----------------------------------------------------------------------------
(* Objects, marshalling *)

\* {...a, ...b}: the attributes of both, b winning
Spread(a, b) ==
    [n \in DOMAIN a \cup DOMAIN b |-> IF n \in DOMAIN b THEN b[n] ELSE a[n]]

\* marshall(obj, {removeUndefinedValues: true})
marshallRemoveUndefined(obj) ==
    [n \in {m \in DOMAIN obj : obj[m] # Undefined} |-> <<"N", obj[n]>>]

\* marshall(obj) throws on an undefined value
canMarshall(obj) == \A n \in DOMAIN obj : obj[n] # Undefined

marshall(obj) == [n \in DOMAIN obj |-> <<"N", obj[n]>>]

unmarshall(item) == [n \in DOMAIN item |-> item[n][2]]

----------------------------------------------------------------------------
(* The table *)

KeySchema == {PK_ATTRIBUTE, SK_ATTRIBUTE}

\* a marshalled Key / Item names the table's key attributes
ValidKey(Key) == DOMAIN Key = KeySchema
ValidItem(Item) == KeySchema \subseteq DOMAIN Item

KeyOf(Item) == <<Item[PK_ATTRIBUTE][2], Item[SK_ATTRIBUTE][2]>>

\* GetItemCommand: <<>> when there is no item, else <<Item>>
StoreGetItem(table, Key) ==
    IF KeyOf(Key) \in DOMAIN table THEN <<table[KeyOf(Key)]>> ELSE <<>>

\* PutItemCommand: the item replaces whatever was stored under its key
StorePutItem(table, Item) ==
    [k \in DOMAIN table \cup {KeyOf(Item)} |->
        IF k = KeyOf(Item) THEN Item ELSE table[k]]

----------------------------------------------------------------------------
(* Inputs *)

NoAttributes == [n \in {} |-> 0]

\* key objects the callers pass: full keys, and a key whose sort key is undefined
FullKeys == {[pk |-> 1, sk |-> s] : s \in 1..MaxSk}
KeyObjects == FullKeys \cup {[pk |-> 1, sk |-> Undefined]}

NameValues == {7, Undefined}
PriceValues == {10, 20}

\* record objects: without key attributes or with those of key (1, 1); the
\* optional attributes present, undefined or missing
RecordObjects ==
    { Spread(kp, rest) :
        kp \in {NoAttributes, [pk |-> 1, sk |-> 1]},
        rest \in {NoAttributes}
            \cup {[name |-> v] : v \in NameValues}
            \cup {[price |-> w] : w \in PriceValues}
            \cup {[name |-> v, price |-> w] : v \in NameValues, w \in PriceValues} }

\* tables the repository may be constructed over
TableOf(records) == [k \in {<<r.pk, r.sk>> : r \in records} |->
    marshall(CHOOSE r \in records : <<r.pk, r.sk>> = k)]

InitTables == {TableOf({}), TableOf({[pk |-> 1, sk |-> 1, name |-> 7, price |-> 10]})}

----------------------------------------------------------------------------
(* getItem, putItem *)

getItemKey(key) == marshallRemoveUndefined(key)

\* a plausible slip: an empty object instead of undefined for a missing item
getItemResultEmptyObject(table, key) ==
    LET result == StoreGetItem(table, getItemKey(key))
    IN  IF result # <<>> THEN <<unmarshall(result[1])>> ELSE <<NoAttributes>>

getItemResult(table, key) ==
    LET result == StoreGetItem(table, getItemKey(key))
    IN  IF result # <<>> THEN <<unmarshall(result[1])>> ELSE <<>>

\* a method is called when the previous call has settled and none of its store
\* calls is still outstanding
Callable ==
    /\ pc \in {"idle", "done", "failed"}
    /\ \A i \in DOMAIN chunks : chunks[i].state # "inflight"

getItem(key) ==
    /\ Callable
    /\ op' = [name |-> "getItem", key |-> key]
    /\ IF ValidKey(getItemKey(key))
         THEN pc' = "done" /\ ret' = getItemResult(store, key) /\ err' = ""
         ELSE pc' = "failed" /\ ret' = <<>> /\ err' = "ValidationException"
    /\ UNCHANGED <<store, lastPut, chunks, pages, collected>>
    /\ UNCHANGED consumedCapacityRegister

\* a plausible slip: the spread the other way round, the record's attributes winning
putItemItemRecordWins(key, record) == marshallRemoveUndefined(Spread(key, record))

putItemItem(key, record) == marshallRemoveUndefined(Spread(record, key))

\* the PutItemCommand is sent and answered
putItem(key, record) ==
    /\ Callable
    /\ op' = [name |-> "putItem", key |-> key, record |-> record]
    /\ ret' = <<>>
    /\ UNCHANGED <<chunks, pages, collected>>
    /\ IF ValidItem(putItemItem(key, record))
         THEN /\ store' = StorePutItem(store, putItemItem(key, record))
              /\ pc' = "putItem.then"
              /\ err' = ""
              /\ lastPut' = <<key, record>>
         ELSE /\ pc' = "failed"
              /\ err' = "ValidationException"
              /\ UNCHANGED <<store, lastPut>>
    /\ UNCHANGED consumedCapacityRegister

\* a plausible slip: the item written is returned, without reading back
putItemThenReturnsWritten ==
    /\ pc = "putItem.then"
    /\ pc' = "done"
    /\ ret' = <<unmarshall(putItemItem(op.key, op.record))>>
    /\ err' = ""
    /\ UNCHANGED <<store, op, lastPut, chunks, pages, collected, consumedCapacityRegister>>

\* .then(() => this.getItem(key))
putItemThen ==
    /\ pc = "putItem.then"
    /\ IF ValidKey(getItemKey(op.key))
         THEN pc' = "done" /\ ret' = getItemResult(store, op.key) /\ err' = ""
         ELSE pc' = "failed" /\ ret' = <<>> /\ err' = "ValidationException"
    /\ UNCHANGED <<store, op, lastPut, chunks, pages, collected>>
    /\ UNCHANGED consumedCapacityRegister

----------------------------------------------------------------------------
(* batchGetItems *)

BatchGetPageSize == 100     \* paginate(keys, 100)
MaxBatchGetKeys == 100      \* most keys the store takes in one BatchGetItemCommand

\* one step of paginate's reducer for element i (one-based here: the source's
\* index is i - 1 and its acc[idx] is acc[idx + 1] here)
paginateStep(acc, array, pageSize, i) ==
    LET idx == ((i - 1) \div pageSize) + 1
    IN  IF idx > Len(acc) THEN Append(acc, <<array[i]>>)
        ELSE [acc EXCEPT ![idx] = Append(@, array[i])]

\* array.reduce over the elements lo..hi in order, starting from acc (the
\* range is halved, and the left half computed first, so that the evaluation
\* stays shallow)
RECURSIVE paginateReduce(_, _, _, _, _)
paginateReduce(array, pageSize, lo, hi, acc) ==
    IF lo > hi THEN acc
    ELSE IF lo = hi THEN paginateStep(acc, array, pageSize, lo)
    ELSE LET mid == (lo + hi) \div 2
             left == paginateReduce(array, pageSize, lo, mid, acc)
         IN  IF Len(left) >= 0
             THEN paginateReduce(array, pageSize, mid + 1, hi, left)
             ELSE left

\* a plausible slip: an empty array paged as one empty page
paginateEmptyPage(array, pageSize) ==
    IF array = <<>> THEN << <<>> >>
    ELSE paginateReduce(array, pageSize, 1, Len(array), <<>>)

\* a plausible slip: the page index computed from the one-based position
paginateOneBased(array, pageSize) ==
    paginateReduce(<<array[1]>> \o array, pageSize, 2, Len(array) + 1, <<>>)

paginate(array, pageSize) == paginateReduce(array, pageSize, 1, Len(array), <<>>)

\* extract(unmarshall(item)): the record of an item
extract(object) == object

Range(seq) == {seq[i] : i \in DOMAIN seq}

\* BatchGetItemCommand: the request is refused when it names more keys than
\* the store takes, the same key twice, or a key that does not fit the schema
ValidBatchGet(Keys) ==
    /\ Len(Keys) \in 1..MaxBatchGetKeys
    /\ \A i \in DOMAIN Keys : ValidKey(Keys[i])
    /\ \A i, j \in DOMAIN Keys : Keys[i] = Keys[j] => i = j

\* Responses[tableName]: the items found, keys without an item left out
RECURSIVE StoreBatchGetRange(_, _, _, _)
StoreBatchGetRange(table, Keys, lo, hi) ==
    IF lo > hi THEN <<>>
    ELSE IF lo = hi THEN StoreGetItem(table, Keys[lo])
    ELSE LET mid == (lo + hi) \div 2
         IN  StoreBatchGetRange(table, Keys, lo, mid)
                \o StoreBatchGetRange(table, Keys, mid + 1, hi)

StoreBatchGet(table, Keys) == StoreBatchGetRange(table, Keys, 1, Len(Keys))

\* the async callback of keyPages.map up to its send: marshall(key) throws on
\* an undefined attribute value, and then no command is sent for the page
issueChunk(keyPage) ==
    IF \A i \in DOMAIN keyPage : canMarshall(keyPage[i])
    THEN [Keys |-> [i \in DOMAIN keyPage |-> marshall(keyPage[i])],
          state |-> "inflight", items |-> <<>>, error |-> ""]
    ELSE [Keys |-> <<>>, state |-> "rejected", items |-> <<>>, error |-> "MarshallError"]

\* itemSets.flat()
RECURSIVE flatFrom(_, _)
flatFrom(itemSets, i) ==
    IF i > Len(itemSets) THEN <<>> ELSE itemSets[i] \o flatFrom(itemSets, i + 1)

flat(itemSets) == flatFrom(itemSets, 1)

\* a plausible slip: Promise.allSettled, the fulfilled pages returned whatever
\* happened to the others
settleAllSettled(cs) ==
    IF \A i \in DOMAIN cs : cs[i].state # "inflight"
    THEN [pc |-> "done",
          ret |-> flat([i \in DOMAIN cs |-> cs[i].items]),
          err |-> ""]
    ELSE [pc |-> "batchGetItems.all", ret |-> <<>>, err |-> ""]

\* Promise.all(...).then(itemSets => itemSets.flat()) while the call is pending:
\* rejected with the first rejection, fulfilled when every page is
settleAll(cs) ==
    IF \E i \in DOMAIN cs : cs[i].state = "rejected"
    THEN [pc |-> "failed", ret |-> <<>>,
          err |-> cs[CHOOSE i \in DOMAIN cs : cs[i].state = "rejected"].error]
    ELSE IF \A i \in DOMAIN cs : cs[i].state = "fulfilled"
    THEN [pc |-> "done",
          ret |-> flat([i \in DOMAIN cs |-> cs[i].items]),
          err |-> ""]
    ELSE [pc |-> "batchGetItems.all", ret |-> <<>>, err |-> ""]

\* keyPages.map(async ...): one promise per key page
issueChunks(keys) ==
    LET keyPages == paginate(keys, BatchGetPageSize)
    IN  [i \in DOMAIN keyPages |-> issueChunk(keyPages[i])]

\* the call: every key page's command is sent before the first await returns
batchGetItems(keys) ==
    /\ Callable
    /\ op' = [name |-> "batchGetItems", keys |-> keys]
    /\ LET cs == issueChunks(keys)
           s == settleAll(cs)
       IN  /\ chunks' = cs
           /\ pc' = s.pc
           /\ ret' = s.ret
           /\ err' = s.err
    /\ UNCHANGED <<store, lastPut, pages, collected>>
    /\ UNCHANGED consumedCapacityRegister

\* the store answers the command of page i (or fails to), and the page's
\* .then maps the items
chunkAnswer(table, c, storeFails) ==
    IF storeFails
    THEN [c EXCEPT !.state = "rejected", !.error = "StoreUnavailable"]
    ELSE IF ~ValidBatchGet(c.Keys)
    THEN [c EXCEPT !.state = "rejected", !.error = "ValidationException"]
    ELSE [c EXCEPT !.state = "fulfilled",
                   !.items = LET found == StoreBatchGet(table, c.Keys)
                             IN  [j \in DOMAIN found |-> extract(unmarshall(found[j]))]]

batchGetResponse(i, storeFails) ==
    /\ i \in DOMAIN chunks
    /\ chunks[i].state = "inflight"
    /\ chunks' = [chunks EXCEPT ![i] = chunkAnswer(store, chunks[i], storeFails)]
    /\ IF pc = "batchGetItems.all"
         THEN LET s == settleAll(chunks')
              IN  pc' = s.pc /\ ret' = s.ret /\ err' = s.err
         ELSE UNCHANGED <<pc, ret, err>>
    /\ UNCHANGED <<store, op, lastPut, pages, collected>>
    /\ UNCHANGED consumedCapacityRegister

\* key lists batchGetItems is called with
BatchKey(i) == [pk |-> 1, sk |-> i]
KeyRun(n) == [i \in 1..n |-> BatchKey(i)]

BatchLengths ==
    {0, 1, 2, BatchGetPageSize - 1, BatchGetPageSize, BatchGetPageSize + 1,
     2 * BatchGetPageSize, MaxKeys}

BatchKeyLists ==
    {KeyRun(n) : n \in BatchLengths}
    \cup {KeyRun(n) \o KeyRun(n) : n \in {1, 2, BatchGetPageSize \div 2 + 1, BatchGetPageSize}}
    \cup {<<BatchKey(2), BatchKey(1)>>, <<BatchKey(1), BatchKey(2), BatchKey(1)>>,
          <<[pk |-> 1, sk |-> Undefined]>>, <<BatchKey(1), [pk |-> 1]>>,
          KeyRun(BatchGetPageSize) \o <<[pk |-> 1, sk |-> Undefined]>>}

BatchRecord(i) == [pk |-> 1, sk |-> i, price |-> 10 * (1 + (i % 2))]

BatchTables ==
    {TableOf({BatchRecord(i) : i \in 1..n}) :
        n \in {0, 2, BatchGetPageSize + BatchGetPageSize \div 2, MaxKeys}}
    \cup {TableOf({BatchRecord(i) : i \in 2..MaxKeys})}

InitBatch ==
    /\ store \in BatchTables
    /\ pc = "idle"
    /\ op = [name |-> "none"]
    /\ ret = <<>>
    /\ err = ""
    /\ lastPut = <<>>
    /\ chunks = <<>>
    /\ pages = <<>>
    /\ collected = <<>>
    /\ consumedCapacityRegister = <<>>

NextBatch ==
    \/ \E keys \in BatchKeyLists : batchGetItems(keys)
    \/ \E i \in 1..(2 * MaxKeys) \div BatchGetPageSize + 1, storeFails \in BOOLEAN :
          batchGetResponse(i, storeFails)

SpecBatch == InitBatch /\ [][NextBatch]_vars

----------------------------------------------------------------------------
(* Query expressions *)

None == <<>>
Some(x) == <<x>>

\* the characters of the attribute names in use
Chars(name) ==
    CASE name = "pk" -> <<"p", "k">>
      [] name = "sk" -> <<"s", "k">>
      [] name = "price" -> <<"p", "r", "i", "c", "e">>
      [] name = "name" -> <<"n", "a", "m", "e">>
      [] name = "gsiPk" -> <<"g", "s", "i", "P", "k">>
      [] name = "gsiSk" -> <<"g", "s", "i", "S", "k">>
      [] name = "a-b" -> <<"a", "-", "b">>
      [] name = "a_b" -> <<"a", "_", "b">>
      [] name = "updatedAt" -> <<"u", "p", "d", "a", "t", "e", "d", "A", "t">>
      [] name = "deletedAt" -> <<"d", "e", "l", "e", "t", "e", "d", "A", "t">>

RECURSIVE Join(_)
Join(chars) == IF chars = <<>> THEN "" ELSE Head(chars) \o Join(Tail(chars))

\* replace(key, /-/g, "_")
expressionAttributeKey(key) ==
    Join([i \in DOMAIN Chars(key) |->
            IF Chars(key)[i] = "-" THEN "_" ELSE Chars(key)[i]])

\* the object built by spreading the entries <<property, value>> in order, a
\* later entry replacing an earlier one of the same property
ObjectOf(entries) ==
    [k \in {entries[i][1] : i \in DOMAIN entries} |->
        entries[CHOOSE i \in DOMAIN entries :
                    /\ entries[i][1] = k
                    /\ \A j \in DOMAIN entries : entries[j][1] = k => j <= i][2]]

\* array.join(separator) on arrays of token lists
RECURSIVE JoinTokens(_, _)
JoinTokens(parts, separator) ==
    IF parts = <<>> THEN <<>>
    ELSE IF Len(parts) = 1 THEN parts[1]
    ELSE parts[1] \o separator \o JoinTokens(Tail(parts), separator)

\* a filter expression's value is a scalar or an array:
\* [isArray |-> ..., items |-> <<the scalar>> or the array's elements]
mapInKeys(filterExpression) ==
    IF filterExpression.value.isArray
    THEN JoinTokens([index \in DOMAIN filterExpression.value.items |->
                        <<":" \o filterExpression.attribute \o ToString(index - 1)>>],
                    <<",">>)
    ELSE <<":" \o filterExpression.attribute>>

\* a plausible slip: the BETWEEN bounds named in the wrong order
mapFilterExpressionBoundsSwapped(filterExpression) ==
    CASE filterExpression.operator = "IN" ->
            <<"#" \o expressionAttributeKey(filterExpression.attribute),
              filterExpression.operator, "(">>
                \o mapInKeys(filterExpression) \o <<")">>
      [] filterExpression.operator = "BETWEEN" ->
            <<"#" \o expressionAttributeKey(filterExpression.attribute),
              filterExpression.operator,
              ":" \o expressionAttributeKey(filterExpression.attribute) \o "1",
              "AND",
              ":" \o expressionAttributeKey(filterExpression.attribute) \o "0">>
      [] OTHER ->
            <<"#" \o expressionAttributeKey(filterExpression.attribute),
              filterExpression.operator,
              ":" \o expressionAttributeKey(filterExpression.attribute)>>

mapFilterExpression(filterExpression) ==
    CASE filterExpression.operator = "IN" ->
            <<"#" \o expressionAttributeKey(filterExpression.attribute),
              filterExpression.operator, "(">>
                \o mapInKeys(filterExpression) \o <<")">>
      [] filterExpression.operator = "BETWEEN" ->
            <<"#" \o expressionAttributeKey(filterExpression.attribute),
              filterExpression.operator,
              ":" \o expressionAttributeKey(filterExpression.attribute) \o "0",
              "AND",
              ":" \o expressionAttributeKey(filterExpression.attribute) \o "1">>
      [] OTHER ->
            <<"#" \o expressionAttributeKey(filterExpression.attribute),
              filterExpression.operator,
              ":" \o expressionAttributeKey(filterExpression.attribute)>>

mapFilterExpressions(filterExpressions) ==
    JoinTokens([i \in DOMAIN filterExpressions |->
                    IF filterExpressions[i].negate
                    THEN <<"NOT">> \o mapFilterExpression(filterExpressions[i])
                    ELSE mapFilterExpression(filterExpressions[i])],
               <<"AND">>)

mapFilterExpressionValues(filterExpression) ==
    IF filterExpression.value.isArray
    THEN ObjectOf([index \in DOMAIN filterExpression.value.items |->
            <<":" \o expressionAttributeKey(filterExpression.attribute)
                  \o ToString(index - 1),
              filterExpression.value.items[index]>>])
    ELSE ObjectOf(<< <<":" \o expressionAttributeKey(filterExpression.attribute),
                      filterExpression.value.items[1]>> >>)

\* the spread of a list of objects, later ones winning
RECURSIVE SpreadAll(_)
SpreadAll(objects) ==
    IF objects = <<>> THEN NoAttributes
    ELSE Spread(SpreadAll(SubSeq(objects, 1, Len(objects) - 1)), objects[Len(objects)])

\* getItems: a query is [pk, sk, index, filterExpressions, projectedAttributes],
\* sk a value or Undefined, the other optional members None or Some(...)
Truthy(x) == x # Undefined /\ x # 0

PK_ATTRIBUTE_NAME(query) ==
    IF query.index # None THEN query.index[1] \o "Pk" ELSE PK_ATTRIBUTE

SK_ATTRIBUTE_NAME(query) ==
    IF query.index # None THEN query.index[1] \o "Sk" ELSE SK_ATTRIBUTE

KeyConditionExpression(query) ==
    <<"#" \o PK_ATTRIBUTE, "=", ":" \o PK_ATTRIBUTE>>
        \o (IF Truthy(query.sk)
            THEN <<"AND", "#" \o SK_ATTRIBUTE, "=", ":" \o SK_ATTRIBUTE>>
            ELSE <<>>)

keyExpressionAttributeNames(query) ==
    IF Truthy(query.sk)
    THEN ObjectOf(<< <<"#" \o PK_ATTRIBUTE, PK_ATTRIBUTE_NAME(query)>>,
                     <<"#" \o SK_ATTRIBUTE, SK_ATTRIBUTE_NAME(query)>> >>)
    ELSE ObjectOf(<< <<"#" \o PK_ATTRIBUTE, PK_ATTRIBUTE_NAME(query)>> >>)

keyExpressionAttributeValues(query) ==
    IF Truthy(query.sk)
    THEN ObjectOf(<< <<":" \o PK_ATTRIBUTE, query.pk>>,
                     <<":" \o SK_ATTRIBUTE, query.sk>> >>)
    ELSE ObjectOf(<< <<":" \o PK_ATTRIBUTE, query.pk>> >>)

ProjectionExpression(query) ==
    IF query.projectedAttributes # None
    THEN Some(JoinTokens([i \in DOMAIN query.projectedAttributes[1] |->
                <<"#" \o expressionAttributeKey(query.projectedAttributes[1][i])>>],
                <<",">>))
    ELSE None

projectionAttributeNames(query) ==
    IF query.projectedAttributes # None
    THEN ObjectOf([i \in DOMAIN query.projectedAttributes[1] |->
            <<"#" \o expressionAttributeKey(query.projectedAttributes[1][i]),
              query.projectedAttributes[1][i]>>])
    ELSE NoAttributes

FilterExpression(query) ==
    IF query.filterExpressions # None
    THEN Some(mapFilterExpressions(query.filterExpressions[1]))
    ELSE None

filterAttributeNames(query) ==
    IF query.filterExpressions # None
    THEN ObjectOf([i \in DOMAIN query.filterExpressions[1] |->
            <<"#" \o expressionAttributeKey(query.filterExpressions[1][i].attribute),
              query.filterExpressions[1][i].attribute>>])
    ELSE NoAttributes

filterAttributeValues(query) ==
    IF query.filterExpressions # None
    THEN SpreadAll([i \in DOMAIN query.filterExpressions[1] |->
            mapFilterExpressionValues(query.filterExpressions[1][i])])
    ELSE NoAttributes

queryCommandInput(query) ==
    [IndexName |-> query.index,
     KeyConditionExpression |-> KeyConditionExpression(query),
     FilterExpression |-> FilterExpression(query),
     ProjectionExpression |-> ProjectionExpression(query),
     ExpressionAttributeNames |->
        Spread(Spread(keyExpressionAttributeNames(query), filterAttributeNames(query)),
               projectionAttributeNames(query)),
     ExpressionAttributeValues |->
        marshallRemoveUndefined(
            Spread(keyExpressionAttributeValues(query), filterAttributeValues(query)))]

----------------------------------------------------------------------------
(* The store's Query *)

QueryPageSize == 100        \* paginateQuery({client, pageSize: 100}, ...)

GsiName == "gsi"            \* the table's global secondary index, all attributes projected
GsiSortValues == 1..3       \* values of the index's range attribute

Comparators == {"=", "<>", "<", "<=", ">", ">="}

\* key attributes <<hash, range>> of the table or of its index
QueryKeySchema(IndexName) ==
    IF IndexName = None THEN <<PK_ATTRIBUTE, SK_ATTRIBUTE>>
    ELSE <<IndexName[1] \o "Pk", IndexName[1] \o "Sk">>

BadSyntax == [ok |-> FALSE, terms |-> <<>>]

\* the values between the parentheses of IN ( v , v , ... )
InValues(inner) ==
    IF /\ Len(inner) % 2 = 1
       /\ \A j \in DOMAIN inner : (j % 2 = 0) <=> (inner[j] = ",")
    THEN Some([j \in 1..((Len(inner) + 1) \div 2) |-> inner[2 * j - 1]])
    ELSE None

\* a condition expression from token i on: term (AND term)*, a term being
\* [NOT] name comparator value | name BETWEEN value AND value | name IN (...)
RECURSIVE ParseTerms(_, _)
ParseTerms(toks, i) ==
    LET neg == i <= Len(toks) /\ toks[i] = "NOT"
        n == IF neg THEN i + 1 ELSE i
        Continue(next, vals) ==
            LET term == [neg |-> neg, name |-> toks[n], op |-> toks[n + 1], vals |-> vals]
            IN  IF next > Len(toks) THEN [ok |-> TRUE, terms |-> <<term>>]
                ELSE IF toks[next] # "AND" THEN BadSyntax
                ELSE LET rest == ParseTerms(toks, next + 1)
                     IN  [ok |-> rest.ok, terms |-> <<term>> \o rest.terms]
    IN  IF n + 2 > Len(toks) THEN BadSyntax
        ELSE CASE toks[n + 1] \in Comparators -> Continue(n + 3, <<toks[n + 2]>>)
               [] toks[n + 1] = "BETWEEN" ->
                    IF n + 4 <= Len(toks) /\ toks[n + 3] = "AND"
                    THEN Continue(n + 5, <<toks[n + 2], toks[n + 4]>>)
                    ELSE BadSyntax
               [] toks[n + 1] = "IN" ->
                    IF toks[n + 2] = "(" /\ \E j \in (n + 3)..Len(toks) : toks[j] = ")"
                    THEN LET close == CHOOSE j \in (n + 3)..Len(toks) :
                                        /\ toks[j] = ")"
                                        /\ \A k \in (n + 3)..(j - 1) : toks[k] # ")"
                             vals == InValues(SubSeq(toks, n + 3, close - 1))
                         IN  IF vals = None THEN BadSyntax ELSE Continue(close + 1, vals[1])
                    ELSE BadSyntax
               [] OTHER -> BadSyntax

ParseCondition(toks) == ParseTerms(toks, 1)

\* a projection expression: name (, name)*
ProjectionNames(toks) == InValues(toks)

NamesUsed(input) ==
    LET key == ParseCondition(input.KeyConditionExpression).terms
        filter == IF input.FilterExpression = None THEN <<>>
                  ELSE ParseCondition(input.FilterExpression[1]).terms
        projection == IF input.ProjectionExpression = None
                         \/ ProjectionNames(input.ProjectionExpression[1]) = None
                      THEN <<>>
                      ELSE ProjectionNames(input.ProjectionExpression[1])[1]
    IN  {key[i].name : i \in DOMAIN key} \cup {filter[i].name : i \in DOMAIN filter}
            \cup Range(projection)

ValuesUsed(input) ==
    LET key == ParseCondition(input.KeyConditionExpression).terms
        filter == IF input.FilterExpression = None THEN <<>>
                  ELSE ParseCondition(input.FilterExpression[1]).terms
    IN  UNION ({Range(key[i].vals) : i \in DOMAIN key}
                \cup {Range(filter[i].vals) : i \in DOMAIN filter})

\* the request is well-formed: the expressions parse, every placeholder they
\* use is bound and every bound placeholder is used, the key condition
\* equates the hash key (and then the range key), the filter names no key
\* attribute, the projection names no attribute twice
ValidQuery(input) ==
    LET schema == QueryKeySchema(input.IndexName)
        names == input.ExpressionAttributeNames
        key == ParseCondition(input.KeyConditionExpression)
        filter == IF input.FilterExpression = None THEN [ok |-> TRUE, terms |-> <<>>]
                  ELSE ParseCondition(input.FilterExpression[1])
    IN  /\ input.IndexName \in {None, Some(GsiName)}
        /\ key.ok /\ filter.ok
        /\ input.ProjectionExpression # None
                => ProjectionNames(input.ProjectionExpression[1]) # None
        /\ NamesUsed(input) = DOMAIN names
        /\ ValuesUsed(input) = DOMAIN input.ExpressionAttributeValues
        /\ Len(key.terms) \in 1..2
        /\ \A i \in DOMAIN key.terms :
                /\ ~key.terms[i].neg
                /\ key.terms[i].op = "="
                /\ names[key.terms[i].name] = schema[i]
        /\ \A i \in DOMAIN filter.terms :
                names[filter.terms[i].name] \notin Range(schema)
        /\ input.ProjectionExpression # None =>
                \A i, j \in DOMAIN ProjectionNames(input.ProjectionExpression[1])[1] :
                    ProjectionNames(input.ProjectionExpression[1])[1][i]
                        = ProjectionNames(input.ProjectionExpression[1])[1][j] => i = j

Compare(comparator, v, w) ==
    CASE comparator = "=" -> v = w
      [] comparator = "<>" -> v # w
      [] comparator = "<" -> v < w
      [] comparator = "<=" -> v <= w
      [] comparator = ">" -> v > w
      [] comparator = ">=" -> v >= w

\* a term on an item; a comparison with an attribute the item lacks is false
TermHolds(term, Item, input) ==
    LET attribute == input.ExpressionAttributeNames[term.name]
        val(j) == input.ExpressionAttributeValues[term.vals[j]][2]
        holds ==
            /\ attribute \in DOMAIN Item
            /\ CASE term.op = "BETWEEN" ->
                        val(1) <= Item[attribute][2] /\ Item[attribute][2] <= val(2)
                 [] term.op = "IN" ->
                        \E j \in DOMAIN term.vals : Item[attribute][2] = val(j)
                 [] OTHER -> Compare(term.op, Item[attribute][2], val(1))
    IN  IF term.neg THEN ~holds ELSE holds

ConditionHolds(terms, Item, input) ==
    \A i \in DOMAIN terms : TermHolds(terms[i], Item, input)

\* the items of the table in key order
TableItems(table) ==
    LET pks == {k[1] : k \in DOMAIN table}
        sks == {k[2] : k \in DOMAIN table}
        ordered(S) == SelectSeq([v \in 1..(CHOOSE m \in S \cup {0} :
                                            \A x \in S \cup {0} : x <= m) |-> v],
                                LAMBDA v : v \in S)
        pkSeq == ordered(pks)
        skSeq == ordered(sks)
    IN  flat([p \in DOMAIN pkSeq |->
            LET present == SelectSeq(skSeq, LAMBDA v : <<pkSeq[p], v>> \in DOMAIN table)
            IN  [j \in DOMAIN present |-> table[<<pkSeq[p], present[j]>>]]])

\* the items the query ranges over, in the order the store reads them: the
\* table by key, the index by its range attribute and then by table key
QueryItems(table, IndexName) ==
    IF IndexName = None THEN TableItems(table)
    ELSE LET schema == QueryKeySchema(IndexName)
             indexed == SelectSeq(TableItems(table),
                            LAMBDA Item : Range(schema) \subseteq DOMAIN Item)
             sorts == [v \in GsiSortValues |-> v]
         IN  flat([g \in DOMAIN sorts |->
                SelectSeq(indexed, LAMBDA Item : Item[schema[2]][2] = sorts[g])])

\* LastEvaluatedKey: the item's table key and, on the index, its index key
CursorOf(Item, IndexName) ==
    [n \in KeySchema \cup Range(QueryKeySchema(IndexName)) |-> Item[n]]

ProjectItem(Item, input) ==
    IF input.ProjectionExpression = None THEN Item
    ELSE LET wanted == {input.ExpressionAttributeNames[n] :
                            n \in Range(ProjectionNames(input.ProjectionExpression[1])[1])}
         IN  [n \in DOMAIN Item \cap wanted |-> Item[n]]

\* QueryCommand with Limit and ExclusiveStartKey: at most Limit items matching
\* the key condition are read from the start key on, then filtered and
\* projected; LastEvaluatedKey is set when Limit items were read
StoreQuery(table, input, ExclusiveStartKey, Limit) ==
    LET key == ParseCondition(input.KeyConditionExpression).terms
        filter == IF input.FilterExpression = None THEN <<>>
                  ELSE ParseCondition(input.FilterExpression[1]).terms
        matching == SelectSeq(QueryItems(table, input.IndexName),
                        LAMBDA Item : ConditionHolds(key, Item, input))
        from == IF ExclusiveStartKey = None THEN 1
                ELSE 1 + (CHOOSE j \in DOMAIN matching :
                            CursorOf(matching[j], input.IndexName) = ExclusiveStartKey[1])
        read == SubSeq(matching, from,
                    IF from + Limit - 1 < Len(matching) THEN from + Limit - 1
                    ELSE Len(matching))
        kept == SelectSeq(read, LAMBDA Item : ConditionHolds(filter, Item, input))
    IN  [Items |-> [j \in DOMAIN kept |-> ProjectItem(kept[j], input)],
         LastEvaluatedKey |->
            IF Len(read) = Limit THEN Some(CursorOf(read[Limit], input.IndexName))
            ELSE None]

----------------------------------------------------------------------------
(* getItems *)

\* {[PK_ATTRIBUTE]: get(item, PK_ATTRIBUTE)}
indexItemKey(item) ==
    ObjectOf(<< <<PK_ATTRIBUTE,
                  IF PK_ATTRIBUTE \in DOMAIN item THEN item[PK_ATTRIBUTE] ELSE Undefined>> >>)

\* what the loop body pushes for a page
pageEntries(query, Items) ==
    IF query.index # None
    THEN [j \in DOMAIN Items |-> indexItemKey(unmarshall(Items[j]))]
    ELSE [j \in DOMAIN Items |-> extract(unmarshall(Items[j]))]

\* a page request that never carries a cursor
NewPageWithoutCursor(ExclusiveStartKey) ==
    [ExclusiveStartKey |-> None, state |-> "inflight",
     Items |-> <<>>, LastEvaluatedKey |-> None]

\* the paginator's request: the command input plus the cursor, if any
NewPage(ExclusiveStartKey) ==
    [ExclusiveStartKey |-> ExclusiveStartKey, state |-> "inflight",
     Items |-> <<>>, LastEvaluatedKey |-> None]

\* the call: the command input is built and the paginator sends the first page
getItems(query) ==
    /\ Callable
    /\ op' = [name |-> "getItems", query |-> query]
    /\ pages' = <<NewPage(None)>>
    /\ collected' = <<>>
    /\ chunks' = <<>>
    /\ pc' = "getItems.page"
    /\ ret' = <<>>
    /\ err' = ""
    /\ UNCHANGED <<store, lastPut>>
    /\ UNCHANGED consumedCapacityRegister

\* the store answers the page in flight (or fails to): the loop body pushes
\* the page's entries, and either the paginator sends the next page with the
\* cursor it got, or the loop ends and the result is returned (table) or the
\* keys are handed to batchGetItems (index)
\* a plausible slip: on an index, the keys of each page are fetched as the
\* page arrives
queryResponseBatchPerPage(storeFails) ==
    /\ pc = "getItems.page"
    /\ LET input == queryCommandInput(op.query)
           n == Len(pages)
       IN  IF storeFails \/ ~ValidQuery(input)
           THEN /\ pages' = [pages EXCEPT ![n].state = "failed"]
                /\ pc' = "failed"
                /\ err' = IF storeFails THEN "StoreUnavailable" ELSE "ValidationException"
                /\ UNCHANGED <<ret, collected, chunks>>
           ELSE LET page == StoreQuery(store, input, pages[n].ExclusiveStartKey,
                                       QueryPageSize)
                    answered == [pages EXCEPT ![n].state = "answered",
                                              ![n].Items = page.Items,
                                              ![n].LastEvaluatedKey = page.LastEvaluatedKey]
                    entries == collected \o pageEntries(op.query, page.Items)
                    cs == IF op.query.index # None
                          THEN chunks \o issueChunks(pageEntries(op.query, page.Items))
                          ELSE chunks
                IN  /\ collected' = entries
                    /\ chunks' = cs
                    /\ IF page.LastEvaluatedKey # None
                       THEN /\ pages' = Append(answered, NewPage(page.LastEvaluatedKey))
                            /\ UNCHANGED <<pc, ret, err>>
                       ELSE /\ pages' = answered
                            /\ IF op.query.index # None
                               THEN /\ pc' = settleAll(cs).pc
                                    /\ ret' = settleAll(cs).ret
                                    /\ err' = settleAll(cs).err
                               ELSE /\ pc' = "done"
                                    /\ ret' = entries
                                    /\ UNCHANGED err
    /\ UNCHANGED <<store, op, lastPut>>
    /\ UNCHANGED consumedCapacityRegister

queryResponse(storeFails) ==
    /\ pc = "getItems.page"
    /\ LET input == queryCommandInput(op.query)
           n == Len(pages)
       IN  IF storeFails \/ ~ValidQuery(input)
           THEN /\ pages' = [pages EXCEPT ![n].state = "failed"]
                /\ pc' = "failed"
                /\ err' = IF storeFails THEN "StoreUnavailable" ELSE "ValidationException"
                /\ UNCHANGED <<ret, collected, chunks>>
           ELSE LET page == StoreQuery(store, input, pages[n].ExclusiveStartKey,
                                       QueryPageSize)
                    answered == [pages EXCEPT ![n].state = "answered",
                                              ![n].Items = page.Items,
                                              ![n].LastEvaluatedKey = page.LastEvaluatedKey]
                    entries == collected \o pageEntries(op.query, page.Items)
                IN  /\ collected' = entries
                    /\ IF page.LastEvaluatedKey # None
                       THEN /\ pages' = Append(answered, NewPage(page.LastEvaluatedKey))
                            /\ UNCHANGED <<pc, ret, err, chunks>>
                       ELSE /\ pages' = answered
                            /\ IF op.query.index # None
                               THEN LET cs == issueChunks(entries)
                                        s == settleAll(cs)
                                    IN  /\ chunks' = cs
                                        /\ pc' = s.pc
                                        /\ ret' = s.ret
                                        /\ err' = s.err
                               ELSE /\ pc' = "done"
                                    /\ ret' = entries
                                    /\ UNCHANGED <<err, chunks>>
    /\ UNCHANGED <<store, op, lastPut>>
    /\ UNCHANGED consumedCapacityRegister

\* queries getItems is called with, and the tables they run on
Predicate(attribute, operator, isArray, items, negate) ==
    [attribute |-> attribute, operator |-> operator,
     value |-> [isArray |-> isArray, items |-> items], negate |-> negate]

QueryFilters ==
    {None, Some(<<>>),
     Some(<<Predicate("price", "=", FALSE, <<20>>, FALSE)>>),
     Some(<<Predicate("price", "=", FALSE, <<20>>, TRUE)>>),
     Some(<<Predicate("price", "BETWEEN", TRUE, <<10, 20>>, FALSE)>>),
     Some(<<Predicate("price", "IN", TRUE, <<10, 30>>, FALSE)>>),
     Some(<<Predicate("price", ">=", FALSE, <<20>>, FALSE),
            Predicate("gsiSk", "=", FALSE, <<1>>, FALSE)>>),
     Some(<<Predicate("price", ">=", FALSE, <<20>>, FALSE),
            Predicate("price", "<>", FALSE, <<30>>, FALSE)>>)}

Queries ==
    [pk : {1, 2},
     sk : {Undefined, 2},
     index : {None, Some(GsiName)},
     filterExpressions : QueryFilters,
     projectedAttributes : {None, Some(<<"price">>), Some(<<"pk", "sk", "price">>)}]

QueryRecord(i) ==
    [pk |-> 1, sk |-> i, price |-> 10 * (1 + (i % 3)),
     gsiPk |-> IF i % 4 = 0 THEN 2 ELSE 1, gsiSk |-> 1 + (i % 3)]

QueryTables ==
    {TableOf({})}
    \cup {TableOf({QueryRecord(i) : i \in 1..n} \cup {[pk |-> 2, sk |-> 2, price |-> 20]}) :
            n \in {3, QueryPageSize, MaxKeys}}

InitQuery ==
    /\ store \in QueryTables
    /\ pc = "idle"
    /\ op = [name |-> "none"]
    /\ ret = <<>>
    /\ err = ""
    /\ lastPut = <<>>
    /\ chunks = <<>>
    /\ pages = <<>>
    /\ collected = <<>>
    /\ consumedCapacityRegister = <<>>

NextQuery ==
    \/ \E query \in Queries : getItems(query)
    \/ \E keys \in {<<>>, KeyRun(2)} : batchGetItems(keys)
    \/ \E storeFails \in BOOLEAN : queryResponse(storeFails)
    \/ \E i \in 1..(MaxKeys \div BatchGetPageSize + 1), storeFails \in BOOLEAN :
          batchGetResponse(i, storeFails)

SpecQuery == InitQuery /\ [][NextQuery]_vars

----------------------------------------------------------------------------
(* getItems with filter predicates of every shape *)

\* records whose attributes include names with "-" and "_"; the last record
\* has neither
FilterRecord(i) ==
    IF i % 4 = 0 THEN [pk |-> 1, sk |-> i, price |-> 10 * i]
    ELSE [pk |-> 1, sk |-> i, price |-> 10 * i] @@ ("a-b" :> i) @@ ("a_b" :> 4 - i)

FilterTables ==
    {TableOf({FilterRecord(i) : i \in 1..n}) : n \in {0, 3, 4}}

FilterPredicateLists ==
    {<<Predicate("price", c, FALSE, <<20>>, negate)>> :
        c \in Comparators, negate \in BOOLEAN}
    \cup {<<Predicate(a, "IN", TRUE, items, negate)>> :
            a \in {"price", "a-b"}, negate \in BOOLEAN,
            items \in {<<>>, <<20>>, <<2, 30>>, <<1, 20, 30>>}}
    \cup {<<Predicate(a, "BETWEEN", TRUE, items, negate)>> :
            a \in {"price", "a-b"}, negate \in BOOLEAN,
            items \in {<<20>>, <<2, 20>>, <<1, 20, 30>>}}
    \cup {<<>>,
          <<Predicate("price", "IN", FALSE, <<20>>, FALSE)>>,
          <<Predicate("price", "BETWEEN", FALSE, <<20>>, FALSE)>>,
          <<Predicate("price", ">=", FALSE, <<20>>, FALSE),
            Predicate("a-b", "=", FALSE, <<2>>, FALSE)>>,
          <<Predicate("price", ">=", FALSE, <<20>>, FALSE),
            Predicate("price", "<>", FALSE, <<30>>, FALSE)>>,
          <<Predicate("a-b", "=", FALSE, <<1>>, FALSE),
            Predicate("a_b", "=", FALSE, <<3>>, FALSE)>>}

FilterQueries ==
    [pk : {1},
     sk : {Undefined},
     index : {None},
     filterExpressions : {None} \cup {Some(l) : l \in FilterPredicateLists},
     projectedAttributes : {None}]

InitFilter ==
    /\ store \in FilterTables
    /\ pc = "idle"
    /\ op = [name |-> "none"]
    /\ ret = <<>>
    /\ err = ""
    /\ lastPut = <<>>
    /\ chunks = <<>>
    /\ pages = <<>>
    /\ collected = <<>>
    /\ consumedCapacityRegister = <<>>

NextFilter ==
    \/ \E query \in FilterQueries : getItems(query)
    \/ \E storeFails \in BOOLEAN : queryResponse(storeFails)

SpecFilter == InitFilter /\ [][NextFilter]_vars

----------------------------------------------------------------------------
(* updateItem, deleteItem *)

UPDATED_AT_ATTRIBUTE == "updatedAt"
DELETED_AT_ATTRIBUTE == "deletedAt"

\* an object as its entries <<property, value>> in insertion order
\* {...a, ...b} on entries: a's properties in place, with b's value where b
\* has the property, then b's other properties
SpreadEntries(a, b) ==
    LET inB(k) == \E j \in DOMAIN b : b[j][1] = k
        inA(k) == \E i \in DOMAIN a : a[i][1] = k
        valueB(k) == b[CHOOSE j \in DOMAIN b : b[j][1] = k][2]
    IN  [i \in DOMAIN a |-> IF inB(a[i][1]) THEN <<a[i][1], valueB(a[i][1])>> ELSE a[i]]
            \o SelectSeq(b, LAMBDA e : ~inA(e[1]))

\* const AttributeUpdates = {...updates, ...metadata}
AttributeUpdates(updates, now) ==
    SpreadEntries(updates, << <<UPDATED_AT_ATTRIBUTE, now>> >>)

\* Object.entries(AttributeUpdates).filter(([_, value]) => value !== undefined)
definedUpdates(updates, now) ==
    SelectSeq(AttributeUpdates(updates, now), LAMBDA e : e[2] # Undefined)

\* `SET #a = :a, #b = :b`: the assignments <<name placeholder, value placeholder>>
setAttributesExpression(updates, now) ==
    [i \in DOMAIN definedUpdates(updates, now) |->
        <<"#" \o expressionAttributeKey(definedUpdates(updates, now)[i][1]),
          ":" \o expressionAttributeKey(definedUpdates(updates, now)[i][1])>>]

\* ` REMOVE #a, #b`: the name placeholders, or None for ""
removeAttributesExpression(remove) ==
    IF remove # None
    THEN Some([i \in DOMAIN remove[1] |-> "#" \o expressionAttributeKey(remove[1][i])])
    ELSE None

removeAttributeNames(remove) ==
    IF remove # None
    THEN ObjectOf([i \in DOMAIN remove[1] |->
            <<"#" \o expressionAttributeKey(expressionAttributeKey(remove[1][i])),
              expressionAttributeKey(remove[1][i])>>])
    ELSE NoAttributes

updateConditionExpression(key) ==
    IF Truthy(key[SK_ATTRIBUTE])
    THEN <<"#" \o PK_ATTRIBUTE, "=", ":" \o PK_ATTRIBUTE, "AND",
           "#" \o SK_ATTRIBUTE, "=", ":" \o SK_ATTRIBUTE>>
    ELSE <<"#" \o PK_ATTRIBUTE, "=", ":" \o PK_ATTRIBUTE>>

UpdateItemInput(key, updates, remove, now) ==
    [Key |-> marshall(key),
     ConditionExpression |-> updateConditionExpression(key),
     UpdateExpression |->
        [SET |-> setAttributesExpression(updates, now),
         REMOVE |-> removeAttributesExpression(remove)],
     ExpressionAttributeNames |->
        Spread(
            Spread(Spread(removeAttributeNames(remove),
                          ObjectOf(<< <<"#" \o PK_ATTRIBUTE, PK_ATTRIBUTE>> >>)),
                   IF Truthy(key[SK_ATTRIBUTE])
                   THEN ObjectOf(<< <<"#" \o SK_ATTRIBUTE, SK_ATTRIBUTE>> >>)
                   ELSE NoAttributes),
            ObjectOf([i \in DOMAIN definedUpdates(updates, now) |->
                <<"#" \o expressionAttributeKey(definedUpdates(updates, now)[i][1]),
                  definedUpdates(updates, now)[i][1]>>])),
     ExpressionAttributeValues |->
        marshallRemoveUndefined(
            Spread(
                IF Truthy(key[SK_ATTRIBUTE])
                THEN ObjectOf(<< <<":" \o PK_ATTRIBUTE, key[PK_ATTRIBUTE]>>,
                                 <<":" \o SK_ATTRIBUTE, key[SK_ATTRIBUTE]>> >>)
                ELSE ObjectOf(<< <<":" \o PK_ATTRIBUTE, key[PK_ATTRIBUTE]>> >>),
                ObjectOf([i \in DOMAIN AttributeUpdates(updates, now) |->
                    <<":" \o expressionAttributeKey(AttributeUpdates(updates, now)[i][1]),
                      AttributeUpdates(updates, now)[i][2]>>])))]

\* UpdateItemCommand as the store takes it: the request is refused unless the
\* key fits the schema, SET and REMOVE are not empty, every placeholder used
\* is bound and every bound one used, no key attribute is changed and no
\* attribute is named twice
UpdateTargets(input) ==
    [i \in DOMAIN input.UpdateExpression.SET |-> input.UpdateExpression.SET[i][1]]
        \o (IF input.UpdateExpression.REMOVE = None THEN <<>>
            ELSE input.UpdateExpression.REMOVE[1])

ValidUpdate(input) ==
    LET condition == ParseCondition(input.ConditionExpression)
        names == input.ExpressionAttributeNames
        targets == UpdateTargets(input)
    IN  /\ ValidKey(input.Key)
        /\ condition.ok
        /\ input.UpdateExpression.SET # <<>>
        /\ input.UpdateExpression.REMOVE # Some(<<>>)
        /\ {condition.terms[i].name : i \in DOMAIN condition.terms} \cup Range(targets)
                = DOMAIN names
        /\ UNION {Range(condition.terms[i].vals) : i \in DOMAIN condition.terms}
                \cup {input.UpdateExpression.SET[i][2] : i \in DOMAIN input.UpdateExpression.SET}
                = DOMAIN input.ExpressionAttributeValues
        /\ \A i \in DOMAIN targets : names[targets[i]] \notin KeySchema
        /\ \A i, j \in DOMAIN targets : names[targets[i]] = names[targets[j]] => i = j

\* the item the update leaves: the stored item (or the key, when there is
\* none) with the SET attributes assigned and the REMOVE attributes deleted
UpdatedItem(table, input) ==
    LET before == IF KeyOf(input.Key) \in DOMAIN table THEN table[KeyOf(input.Key)]
                  ELSE input.Key
        names == input.ExpressionAttributeNames
        assigned == {names[input.UpdateExpression.SET[i][1]] :
                        i \in DOMAIN input.UpdateExpression.SET}
        removed == IF input.UpdateExpression.REMOVE = None THEN {}
                   ELSE {names[n] : n \in Range(input.UpdateExpression.REMOVE[1])}
        valueOf(a) ==
            input.ExpressionAttributeValues[
                input.UpdateExpression.SET[
                    CHOOSE i \in DOMAIN input.UpdateExpression.SET :
                        names[input.UpdateExpression.SET[i][1]] = a][2]]
    IN  [a \in (DOMAIN before \cup assigned) \ removed |->
            IF a \in assigned THEN valueOf(a) ELSE before[a]]

\* the store's answer to the command: the error, or "" and the table after it
StoreUpdateItem(table, input) ==
    IF ~ValidUpdate(input)
    THEN [error |-> "ValidationException", table |-> table]
    ELSE IF ~ConditionHolds(ParseCondition(input.ConditionExpression).terms,
                IF KeyOf(input.Key) \in DOMAIN table THEN table[KeyOf(input.Key)]
                ELSE NoAttributes,
                input)
    THEN [error |-> "ConditionalCheckFailedException", table |-> table]
    ELSE [error |-> "",
          table |-> [k \in DOMAIN table \cup {KeyOf(input.Key)} |->
                        IF k = KeyOf(input.Key) THEN UpdatedItem(table, input)
                        ELSE table[k]]]

\* DeleteItemCommand: the item under the key, if any, is removed
StoreDeleteItem(table, Key) ==
    [k \in DOMAIN table \ {KeyOf(Key)} |-> table[k]]

\* the UpdateItemCommand of updateItem(key, updates, remove) is built, sent and
\* answered; marshall(key) throws on an undefined key attribute
sendUpdateItem(name, key, updates, remove, now) ==
    /\ Callable
    /\ op' = [name |-> name, key |-> key, updates |-> updates, remove |-> remove]
    /\ ret' = <<>>
    /\ UNCHANGED <<chunks, pages, collected>>
    /\ IF ~canMarshall(key)
       THEN /\ pc' = "failed"
            /\ err' = "MarshallError"
            /\ UNCHANGED <<store, lastPut>>
       ELSE LET answer == StoreUpdateItem(store, UpdateItemInput(key, updates, remove, now))
            IN  IF answer.error # ""
                THEN /\ pc' = "failed"
                     /\ err' = answer.error
                     /\ UNCHANGED <<store, lastPut>>
                ELSE /\ store' = answer.table
                     /\ pc' = name \o ".updateItem.then"
                     /\ err' = ""
                     /\ lastPut' = <<>>
    /\ UNCHANGED consumedCapacityRegister

updateItem(key, updates, remove, now) ==
    sendUpdateItem("updateItem", key, updates, remove, now)

\* updateItem's .then(() => this.getItem(key))
updateItemThen ==
    /\ pc \in {"updateItem.updateItem.then", "deleteItem.updateItem.then"}
    /\ IF ValidKey(getItemKey(op.key))
         THEN /\ pc' = IF op.name = "deleteItem" THEN "deleteItem.then" ELSE "done"
              /\ ret' = getItemResult(store, op.key)
              /\ err' = ""
         ELSE pc' = "failed" /\ ret' = <<>> /\ err' = "ValidationException"
    /\ UNCHANGED <<store, op, lastPut, chunks, pages, collected>>
    /\ UNCHANGED consumedCapacityRegister

\* deleteItem: this.updateItem(key, {[DELETED_AT_ATTRIBUTE]: now})
deleteItem(key, deletedAt, now) ==
    sendUpdateItem("deleteItem", key, << <<DELETED_AT_ATTRIBUTE, deletedAt>> >>, None, now)

\* a plausible slip: the item only marked as deleted, no DeleteItemCommand sent
deleteItemCommandNotSent(table, key) == table

\* the table after send(new DeleteItemCommand({TableName, Key: marshall(key)}))
deleteItemCommand(table, key) == StoreDeleteItem(table, marshall(key))

\* deleteItem's .then((result) => send(new DeleteItemCommand(...)).then(() => result))
deleteItemThen ==
    /\ pc = "deleteItem.then"
    /\ store' = deleteItemCommand(store, op.key)
    /\ pc' = "done"
    /\ lastPut' = <<>>
    /\ UNCHANGED <<op, ret, err, chunks, pages, collected>>
    /\ UNCHANGED consumedCapacityRegister

\* the calls made and the tables they are made on; Times are the values of
\* new Date().toISOString()
Times == {50, 51}

UpdateEntries ==
    {<<>>,
     << <<"name", 8>> >>,
     << <<"name", Undefined>>, <<"price", 30>> >>}

UpdateRemoves == {None, Some(<<"price">>)}

UpdateRecords == {[name |-> 7, price |-> 10], [pk |-> 1, sk |-> 1, name |-> 7]}

\* keys the calls are made with: two full keys and one without sort key value
UpdateKeys ==
    {[pk |-> 1, sk |-> 1], [pk |-> 1, sk |-> 2], [pk |-> 1, sk |-> Undefined]}

UpdateTables ==
    {TableOf({}),
     TableOf({[pk |-> 1, sk |-> 1, name |-> 7, price |-> 10]}),
     TableOf({[pk |-> 1, sk |-> 1, name |-> 7], [pk |-> 1, sk |-> 2, name |-> 7]})}

InitUpdate ==
    /\ store \in UpdateTables
    /\ pc = "idle"
    /\ op = [name |-> "none"]
    /\ ret = <<>>
    /\ err = ""
    /\ lastPut = <<>>
    /\ chunks = <<>>
    /\ pages = <<>>
    /\ collected = <<>>
    /\ consumedCapacityRegister = <<>>

NextUpdate ==
    \/ \E key \in UpdateKeys : getItem(key)
    \/ \E key \in UpdateKeys, record \in UpdateRecords : putItem(key, record)
    \/ putItemThen
    \/ \E key \in UpdateKeys, updates \in UpdateEntries, remove \in UpdateRemoves,
            now \in Times : updateItem(key, updates, remove, now)
    \/ updateItemThen
    \/ \E key \in UpdateKeys, deletedAt \in Times, now \in Times :
            deletedAt <= now /\ deleteItem(key, deletedAt, now)
    \/ deleteItemThen

SpecUpdate == InitUpdate /\ [][NextUpdate]_vars

----------------------------------------------------------------------------
(* getItems and updateItem on attributes whose names contain "-" *)

NameTables ==
    {TableOf({FilterRecord(i) : i \in 1..n}) : n \in {0, 2}}

NameQueries ==
    [pk : {1},
     sk : {Undefined},
     index : {None},
     filterExpressions :
        {None,
         Some(<<Predicate("a-b", "=", FALSE, <<2>>, FALSE)>>),
         Some(<<Predicate("a-b", "IN", TRUE, <<1, 2>>, FALSE)>>)},
     projectedAttributes :
        {None, Some(<<"a-b">>), Some(<<"price", "a-b">>), Some(<<"a-b", "a_b">>)}]

NameUpdates == {<<>>, << <<"a-b", 9>> >>, << <<"a-b", Undefined>>, <<"price", 30>> >>}

NameRemoves == {None, Some(<<"a-b">>)}

InitNames ==
    /\ store \in NameTables
    /\ pc = "idle"
    /\ op = [name |-> "none"]
    /\ ret = <<>>
    /\ err = ""
    /\ lastPut = <<>>
    /\ chunks = <<>>
    /\ pages = <<>>
    /\ collected = <<>>
    /\ consumedCapacityRegister = <<>>

NextNames ==
    \/ \E query \in NameQueries : getItems(query)
    \/ \E storeFails \in BOOLEAN : queryResponse(storeFails)
    \/ \E updates \in NameUpdates, remove \in NameRemoves, now \in Times :
            updateItem([pk |-> 1, sk |-> 1], updates, remove, now)
    \/ updateItemThen

SpecNames == InitNames /\ [][NextNames]_vars

----------------------------------------------------------------------------
(* consumedCapacityMiddleware (src/src/consumed-capacity-middleware.ts): a   *)
(* PutItemCommand sent through a client whose middleware stack carries the  *)
(* handler; next is the rest of the stack and the store                     *)

MaxSends == 2       \* commands sent through the middleware in one behaviour

\* lodash get(object, path): the member, or undefined (None) when absent
get(object, path) == IF path \in DOMAIN object THEN Some(object[path]) ELSE None

\* a plausible slip: the capacity detail built from the input alone
consumedCapacityDetailOfInput(input, output) ==
    [ReturnConsumedCapacity |-> get(input, "ReturnConsumedCapacity"),
     ConsumedCapacity |-> get(input, "ConsumedCapacity")]

\* {ReturnConsumedCapacity, ConsumedCapacity: consumedCapacity}
consumedCapacityDetail(input, output) ==
    [ReturnConsumedCapacity |-> get(input, "ReturnConsumedCapacity"),
     ConsumedCapacity |-> get(output, "ConsumedCapacity")]

\* the handler is entered: const {input} = args; const {ReturnConsumedCapacity}
\* = input; next(args) is called and awaited
consumedCapacityMiddleware(input) ==
    /\ Callable
    /\ Len(consumedCapacityRegister) < MaxSends
    /\ op' = [name |-> "send", input |-> input, response |-> None,
              callback |-> "none"]
    /\ pc' = "middleware.next"
    /\ ret' = <<>>
    /\ err' = ""
    /\ UNCHANGED <<store, lastPut, chunks, pages, collected, consumedCapacityRegister>>

\* next(args) settles: rejected with error, or the command has taken effect
\* and the response {output} arrives; the handler then calls
\* onConsumedCapacity with the detail and awaits its promise
nextSettled(error, output) ==
    /\ pc = "middleware.next"
    /\ IF error # ""
       THEN /\ pc' = "failed"
            /\ err' = error
            /\ UNCHANGED <<store, op, consumedCapacityRegister>>
       ELSE /\ store' = StorePutItem(store, op.input.Item)
            /\ op' = [op EXCEPT !.response = Some([output |-> output]),
                                !.callback = "pending"]
            /\ consumedCapacityRegister' =
                    Append(consumedCapacityRegister,
                           consumedCapacityDetail(op.input, output))
            /\ pc' = "middleware.onConsumedCapacity"
            /\ err' = ""
    /\ UNCHANGED <<ret, lastPut, chunks, pages, collected>>

\* a plausible slip: a rejection of the callback is swallowed
onConsumedCapacitySettledCaught(rejects) ==
    /\ pc = "middleware.onConsumedCapacity"
    /\ op' = [op EXCEPT !.callback = IF rejects THEN "rejected" ELSE "resolved"]
    /\ pc' = "done"
    /\ ret' = op.response
    /\ err' = ""
    /\ UNCHANGED <<store, lastPut, chunks, pages, collected, consumedCapacityRegister>>

\* the promise of onConsumedCapacity settles (op.callback records how):
\* return response, or the rejection leaves the handler
onConsumedCapacitySettled(rejects) ==
    /\ pc = "middleware.onConsumedCapacity"
    /\ op' = [op EXCEPT !.callback = IF rejects THEN "rejected" ELSE "resolved"]
    /\ IF rejects
       THEN pc' = "failed" /\ ret' = <<>> /\ err' = "CallbackError"
       ELSE pc' = "done" /\ ret' = op.response /\ err' = ""
    /\ UNCHANGED <<store, lastPut, chunks, pages, collected, consumedCapacityRegister>>

\* the commands sent and what next may answer
MiddlewareItems ==
    {marshall([pk |-> 1, sk |-> 1, name |-> 7]), marshall([pk |-> 1, sk |-> 2, name |-> 8])}

MiddlewareInputs ==
    {[Item |-> Item] : Item \in MiddlewareItems}
    \cup {[Item |-> Item, ReturnConsumedCapacity |-> r] :
            Item \in MiddlewareItems, r \in {"TOTAL", "NONE"}}

MiddlewareOutputs ==
    {[Attributes |-> 0], [Attributes |-> 0, ConsumedCapacity |-> 1],
     [Attributes |-> 0, ConsumedCapacity |-> 2]}

NextErrors == {"StoreUnavailable", "ConditionalCheckFailedException"}

InitMiddleware ==
    /\ store \in InitTables
    /\ pc = "idle"
    /\ op = [name |-> "none"]
    /\ ret = <<>>
    /\ err = ""
    /\ lastPut = <<>>
    /\ chunks = <<>>
    /\ pages = <<>>
    /\ collected = <<>>
    /\ consumedCapacityRegister = <<>>

NextMiddleware ==
    \/ \E input \in MiddlewareInputs : consumedCapacityMiddleware(input)
    \/ \E error \in NextErrors \cup {""}, output \in MiddlewareOutputs :
            nextSettled(error, output)
    \/ \E rejects \in BOOLEAN : onConsumedCapacitySettled(rejects)

SpecMiddleware == InitMiddleware /\ [][NextMiddleware]_vars

----------------------------------------------------------------------------
(* putItem while another client of the same table writes: the other         *)
(* client's commands reach the store at any time, also between this         *)
(* client's PutItemCommand and its read-back                                *)

ConcurrentRecords == {[name |-> 7], [name |-> 8, price |-> 10]}

\* the PutItemCommand of another client's putItem(key, record)
anotherPutItem(key, record) ==
    /\ ValidItem(putItemItem(key, record))
    /\ store' = StorePutItem(store, putItemItem(key, record))
    /\ UNCHANGED <<pc, op, ret, err, lastPut, chunks, pages, collected,
                   consumedCapacityRegister>>

\* the DeleteItemCommand of another client's deleteItem(key)
anotherDeleteItem(key) ==
    /\ KeyOf(marshall(key)) \in DOMAIN store
    /\ store' = deleteItemCommand(store, key)
    /\ UNCHANGED <<pc, op, ret, err, lastPut, chunks, pages, collected,
                   consumedCapacityRegister>>

InitConcurrent ==
    /\ store \in InitTables
    /\ pc = "idle"
    /\ op = [name |-> "none"]
    /\ ret = <<>>
    /\ err = ""
    /\ lastPut = <<>>
    /\ chunks = <<>>
    /\ pages = <<>>
    /\ collected = <<>>
    /\ consumedCapacityRegister = <<>>

NextConcurrent ==
    \/ \E key \in FullKeys, record \in ConcurrentRecords : putItem(key, record)
    \/ putItemThen
    \/ \E key \in FullKeys, record \in ConcurrentRecords : anotherPutItem(key, record)
    \/ \E key \in FullKeys : anotherDeleteItem(key)

SpecConcurrent == InitConcurrent /\ [][NextConcurrent]_vars

----------------------------------------------------------------------------

Init ==
    /\ store \in InitTables
    /\ pc = "idle"
    /\ op = [name |-> "none"]
    /\ ret = <<>>
    /\ err = ""
    /\ lastPut = <<>>
    /\ chunks = <<>>
    /\ pages = <<>>
    /\ collected = <<>>
    /\ consumedCapacityRegister = <<>>

Next ==
    \/ \E key \in KeyObjects : getItem(key)
    \/ \E key \in KeyObjects, record \in RecordObjects : putItem(key, record)
    \/ putItemThen

Spec == Init /\ [][Next]_vars

----------------------------------------------------------------------------
(* Claims about getItem and putItem *)

\* the key attributes plus every attribute of the record whose value is defined
PutRecord(key, record) ==
    [n \in DOMAIN key \cup {m \in DOMAIN record : record[m] # Undefined} |->
        IF n \in DOMAIN key THEN key[n] ELSE record[n]]

GotAfterPut ==
    /\ op.name = "getItem"
    /\ op.key \in FullKeys
    /\ lastPut # <<>>
    /\ lastPut[1] = op.key

\* C1: a getItem(key) that follows putItem calls on that key resolves with the
\* most recent put's record: the key attributes and the record's defined
\* attributes, nothing of earlier records; when the record carries the key and
\* has no undefined value, that is the record itself.
C1_GetReturnsLastPut ==
    GotAfterPut =>
        /\ pc = "done"
        /\ ret = <<PutRecord(lastPut[1], lastPut[2])>>
        /\ (canMarshall(lastPut[2]) /\ Spread(lastPut[2], lastPut[1]) = lastPut[2])
              => ret = <<lastPut[2]>>

\* a put over an earlier record with more attributes, or with an undefined or
\* foreign-key attribute in the record, has been read back by getItem
C1_Witness ==
    /\ GotAfterPut
    /\ pc = "done"
    /\ lastPut[1] = [pk |-> 1, sk |-> 2]
    /\ lastPut[2] = [pk |-> 1, sk |-> 1, name |-> Undefined]
    /\ ret = <<[pk |-> 1, sk |-> 2]>>

KeyTuple(key) == <<key[PK_ATTRIBUTE], key[SK_ATTRIBUTE]>>

GotMissing ==
    /\ op.name = "getItem"
    /\ op.key \in FullKeys
    /\ KeyTuple(op.key) \notin DOMAIN store

\* C2: getItem of a key with no stored record resolves with undefined, raises
\* no error, and no getItem call changes the table.
C2_GetMissingIsUndefined ==
    /\ [](GotMissing => (pc = "done" /\ ret = <<>> /\ err = ""))
    /\ [][(Callable /\ op'.name = "getItem" /\ pc' \in {"done", "failed"})
            => store' = store]_vars

\* getItem of a missing key has run on a table that holds another record
C2_Witness ==
    /\ GotMissing
    /\ pc = "done"
    /\ ret = <<>>
    /\ DOMAIN store # {}

----------------------------------------------------------------------------
(* Claims about batchGetItems *)

Distinct(seq) == \A i, j \in DOMAIN seq : seq[i] = seq[j] => i = j

\* a Key of the table: exactly its key attributes, each with a value
IsKey(key) == DOMAIN key = KeySchema /\ canMarshall(key)

Stored(key) == KeyTuple(key) \in DOMAIN store

StoredRecord(key) == unmarshall(store[KeyTuple(key)])

Occurrences(seq, x) == Cardinality({j \in DOMAIN seq : seq[j] = x})

Ceil(n, d) == (n + d - 1) \div d

BatchCalled == op.name = "batchGetItems"

C5_DuplicatesRemoved ==
    (BatchCalled /\ \A i \in DOMAIN op.keys : IsKey(op.keys[i])) =>
        /\ Distinct(flat([i \in DOMAIN chunks |-> chunks[i].Keys]))
        /\ pc = "failed" => err = "StoreUnavailable"
        /\ pc = "done" =>
                \A i \in DOMAIN op.keys :
                    Stored(op.keys[i]) => Occurrences(ret, StoredRecord(op.keys[i])) = 1

\* C6: the keys are sent in ceil(n / 100) commands of at most 100 keys each,
\* the commands' key lists laid end to end are the key list, and for distinct
\* keys the result is that of one fetch of all the keys.
C6_Chunking ==
    (BatchCalled /\ \A i \in DOMAIN op.keys : canMarshall(op.keys[i])) =>
        /\ Len(chunks) = Ceil(Len(op.keys), 100)
        /\ \A i \in DOMAIN chunks : Len(chunks[i].Keys) \in 1..100
        /\ flat([i \in DOMAIN chunks |-> chunks[i].Keys])
              = [i \in DOMAIN op.keys |-> marshall(op.keys[i])]
        /\ (pc = "done" /\ Distinct(op.keys)) =>
              ret = LET found == StoreBatchGet(store,
                                    [i \in DOMAIN op.keys |-> marshall(op.keys[i])])
                    IN  [j \in DOMAIN found |-> unmarshall(found[j])]

\* more than 200 keys have been fetched in three commands, the first two of
\* 100 keys and the last of the rest
C6_Witness ==
    /\ BatchCalled
    /\ pc = "done"
    /\ Len(op.keys) > 2 * 100
    /\ Len(chunks) = 3
    /\ Len(chunks[1].Keys) = 100
    /\ Len(chunks[2].Keys) = 100
    /\ Len(chunks[3].Keys) = Len(op.keys) - 2 * 100
    /\ Len(ret) > 100

\* C9: when a page's command fails the call fails with that page's error and
\* no result, whatever the other pages fetched, and while the call's commands
\* are outstanding a failed page is not sent again.
C9_ChunkFailureFailsAll ==
    /\ []((BatchCalled /\ \E i \in DOMAIN chunks : chunks[i].state = "rejected") =>
            /\ pc = "failed"
            /\ ret = <<>>
            /\ \E i \in DOMAIN chunks :
                    chunks[i].state = "rejected" /\ err = chunks[i].error)
    /\ [][(\E i \in DOMAIN chunks : chunks[i].state = "inflight") =>
            /\ DOMAIN chunks' = DOMAIN chunks
            /\ \A j \in DOMAIN chunks :
                    chunks[j].state = "rejected" => chunks'[j] = chunks[j]]_vars

\* a page has fetched records and another page's command has failed
C9_Witness ==
    /\ BatchCalled
    /\ pc = "failed"
    /\ err = "StoreUnavailable"
    /\ ret = <<>>
    /\ \E i, j \in DOMAIN chunks :
            /\ chunks[i].state = "fulfilled"
            /\ chunks[i].items # <<>>
            /\ chunks[j].state = "rejected"

\* C10: once the call has failed none of its commands is still outstanding.
C10_NoCommandOutstandingAfterFailure ==
    (BatchCalled /\ pc = "failed") =>
        \A i \in DOMAIN chunks : chunks[i].state # "inflight"

----------------------------------------------------------------------------
(* Claims about getItems *)

StoredRecords == {unmarshall(store[k]) : k \in DOMAIN store}

\* what a predicate says of a record
PredicateHolds(predicate, record) ==
    LET holds ==
            /\ predicate.attribute \in DOMAIN record
            /\ CASE predicate.operator = "IN" ->
                        record[predicate.attribute] \in Range(predicate.value.items)
                 [] predicate.operator = "BETWEEN" ->
                        /\ predicate.value.items[1] <= record[predicate.attribute]
                        /\ record[predicate.attribute] <= predicate.value.items[2]
                 [] OTHER ->
                        Compare(predicate.operator, record[predicate.attribute],
                                predicate.value.items[1])
    IN  IF predicate.negate THEN ~holds ELSE holds

Predicates(query) ==
    IF query.filterExpressions = None THEN <<>> ELSE query.filterExpressions[1]

\* the record has the query's equality keys and satisfies all its predicates
QueryMatches(query, record) ==
    /\ record[PK_ATTRIBUTE_NAME(query)] = query.pk
    /\ query.sk # Undefined => record[SK_ATTRIBUTE_NAME(query)] = query.sk
    /\ \A i \in DOMAIN Predicates(query) : PredicateHolds(Predicates(query)[i], record)

TableQueried ==
    /\ op.name = "getItems"
    /\ op.query.index = None
    /\ op.query.projectedAttributes = None

\* C3: a table query resolves with exactly the stored records that have the
\* query's equality keys and satisfy all its predicates, and fails only when
\* the store does.
C3_TableQueryResult ==
    TableQueried =>
        /\ pc = "failed" => err = "StoreUnavailable"
        /\ pc = "done" =>
            /\ Range(ret) = {r \in StoredRecords : QueryMatches(op.query, r)}
            /\ Distinct(ret)

PagingComplete ==
    /\ pages # <<>>
    /\ pages[Len(pages)].state = "answered"
    /\ pages[Len(pages)].LastEvaluatedKey = None

IndexQueried ==
    /\ op.name = "getItems"
    /\ op.query.index # None

\* C7: an index query whose pages were read resolves with full table records
\* of the items the index query matched, with or without a projection, and
\* fails only when the store does.
C7_IndexQueryReturnsFullRecords ==
    (IndexQueried /\ PagingComplete) =>
        /\ pc = "failed" => err = "StoreUnavailable"
        /\ pc = "done" =>
            \A j \in DOMAIN ret :
                /\ ret[j] \in StoredRecords
                /\ \E i \in DOMAIN pages : \E k \in DOMAIN pages[i].Items :
                        \A n \in DOMAIN pages[i].Items[k] :
                            ret[j][n] = pages[i].Items[k][n][2]

\* the result of the command without paging
Unpaged(query) ==
    StoreQuery(store, queryCommandInput(query), None, Cardinality(DOMAIN store) + 1).Items

\* C8: page requests are sent one at a time, the first without a cursor and
\* each later one with the cursor the page before returned; paging goes on
\* exactly while pages come back with a cursor; and what was collected when
\* it ends is every item of every page once, in page order, which is all the
\* command matches.
C8_PagesDrainedInSequence ==
    op.name = "getItems" =>
        /\ pages # <<>>
        /\ pages[1].ExclusiveStartKey = None
        /\ \A i \in DOMAIN pages :
              /\ pages[i].state = "inflight" => i = Len(pages)
              /\ i > 1 => /\ pages[i - 1].state = "answered"
                          /\ pages[i - 1].LastEvaluatedKey # None
                          /\ pages[i].ExclusiveStartKey = pages[i - 1].LastEvaluatedKey
        /\ pc = "getItems.page" <=> pages[Len(pages)].state = "inflight"
        /\ collected =
              pageEntries(op.query,
                  flat([i \in DOMAIN pages |-> pages[i].Items]))
        /\ PagingComplete =>
              /\ flat([i \in DOMAIN pages |-> pages[i].Items]) = Unpaged(op.query)
              /\ op.query.index = None => (pc = "done" /\ ret = collected)

\* a table query has been answered in three pages
C8_Witness ==
    /\ op.name = "getItems"
    /\ op.query.index = None
    /\ pc = "done"
    /\ Len(pages) = 3
    /\ pages[3].Items # <<>>
    /\ Len(ret) > 2 * QueryPageSize

----------------------------------------------------------------------------
(* Claims about the compiled filter *)

\* the value placeholders :S0 .. :S(n-1) of a predicate with a list of n values
ValuePlaceholders(predicate) ==
    [i \in DOMAIN predicate.value.items |->
        ":" \o expressionAttributeKey(predicate.attribute) \o ToString(i - 1)]

\* the list's element i bound to :Si, and nothing else bound
BoundInListOrder(predicate) ==
    /\ DOMAIN mapFilterExpressionValues(predicate) = Range(ValuePlaceholders(predicate))
    /\ \A i \in DOMAIN predicate.value.items :
            mapFilterExpressionValues(predicate)[ValuePlaceholders(predicate)[i]]
                = predicate.value.items[i]

IsIn(predicate) ==
    /\ predicate.operator = "IN"
    /\ predicate.value.isArray
    /\ predicate.value.items # <<>>

\* C11: an IN predicate with a list of n values binds exactly :S0 .. :S(n-1),
\* element i to :Si, and its clause is #S IN ( :S0 , ... , :S(n-1) ), S being
\* the sanitized attribute name, also for a name with "-".
C11_InPlaceholders ==
    op.name = "getItems" =>
        \A i \in DOMAIN Predicates(op.query) :
            IsIn(Predicates(op.query)[i]) =>
                /\ BoundInListOrder(Predicates(op.query)[i])
                /\ mapFilterExpression(Predicates(op.query)[i])
                    = <<"#" \o expressionAttributeKey(Predicates(op.query)[i].attribute),
                        "IN", "(">>
                      \o JoinTokens([j \in DOMAIN Predicates(op.query)[i].value.items |->
                                        <<ValuePlaceholders(Predicates(op.query)[i])[j]>>],
                                    <<",">>)
                      \o <<")">>

IsBetween(predicate) ==
    /\ predicate.operator = "BETWEEN"
    /\ predicate.value.isArray
    /\ Len(predicate.value.items) = 2

\* the query's only predicate is a BETWEEN (lower, upper), not negated
BetweenQueried ==
    /\ op.name = "getItems"
    /\ Len(Predicates(op.query)) = 1
    /\ IsBetween(Predicates(op.query)[1])
    /\ ~Predicates(op.query)[1].negate

PartitionRecords(query) ==
    {r \in StoredRecords : r[PK_ATTRIBUTE_NAME(query)] = query.pk}

\* C12: a BETWEEN predicate with value (lower, upper) compiles to
\* #S BETWEEN :S0 AND :S1 with :S0 bound to lower and :S1 to upper, and a
\* query with it resolves with exactly the records of the partition whose
\* value v of the attribute has lower <= v <= upper.
C12_BetweenInclusive ==
    op.name = "getItems" =>
        /\ \A i \in DOMAIN Predicates(op.query) :
              IsBetween(Predicates(op.query)[i]) =>
                /\ BoundInListOrder(Predicates(op.query)[i])
                /\ mapFilterExpression(Predicates(op.query)[i])
                    = <<"#" \o expressionAttributeKey(Predicates(op.query)[i].attribute),
                        "BETWEEN",
                        ValuePlaceholders(Predicates(op.query)[i])[1],
                        "AND",
                        ValuePlaceholders(Predicates(op.query)[i])[2]>>
        /\ BetweenQueried =>
              /\ pc = "failed" => err = "StoreUnavailable"
              /\ pc = "done" =>
                    /\ Distinct(ret)
                    /\ Range(ret) =
                        {r \in PartitionRecords(op.query) :
                            /\ Predicates(op.query)[1].attribute \in DOMAIN r
                            /\ Predicates(op.query)[1].value.items[1]
                                    <= r[Predicates(op.query)[1].attribute]
                            /\ r[Predicates(op.query)[1].attribute]
                                    <= Predicates(op.query)[1].value.items[2]}

\* a BETWEEN query has returned some records of the partition, one of them
\* at the upper bound, and not others
C12_Witness ==
    /\ BetweenQueried
    /\ pc = "done"
    /\ \E j \in DOMAIN ret :
            ret[j][Predicates(op.query)[1].attribute]
                = Predicates(op.query)[1].value.items[2]
    /\ Cardinality(Range(ret)) < Cardinality(PartitionRecords(op.query))

\* a BETWEEN value that is not a pair, or an empty IN list
Malformed(predicate) ==
    \/ /\ predicate.operator = "BETWEEN"
       /\ ~predicate.value.isArray \/ Len(predicate.value.items) # 2
    \/ /\ predicate.operator = "IN"
       /\ predicate.value.isArray
       /\ predicate.value.items = <<>>

\* C13: a query with a malformed predicate fails with InvalidPredicate while
\* it is compiled: no page is requested and no batch command is sent for it.
C13_MalformedRejectedAtCompile ==
    (/\ op.name = "getItems"
     /\ \E i \in DOMAIN Predicates(op.query) : Malformed(Predicates(op.query)[i])) =>
        /\ pages = <<>>
        /\ chunks = <<>>
        /\ pc = "failed"
        /\ err = "InvalidPredicate"

\* the query's only predicate is negated and well-formed
NegatedQueried ==
    /\ op.name = "getItems"
    /\ Len(Predicates(op.query)) = 1
    /\ Predicates(op.query)[1].negate
    /\ ~Malformed(Predicates(op.query)[1])

\* C14: a negated predicate compiles to NOT ( clause ), the clause being that
\* of the predicate without negate, with the same bindings, and a query with it
\* resolves with exactly the records of the partition that the predicate
\* without negate rejects.
C14_NegationParenthesised ==
    op.name = "getItems" =>
        /\ \A i \in DOMAIN Predicates(op.query) :
              Predicates(op.query)[i].negate =>
                /\ mapFilterExpressions(<<Predicates(op.query)[i]>>)
                    = <<"NOT", "(">>
                      \o mapFilterExpression(
                            [Predicates(op.query)[i] EXCEPT !.negate = FALSE])
                      \o <<")">>
                /\ mapFilterExpressionValues(Predicates(op.query)[i])
                    = mapFilterExpressionValues(
                            [Predicates(op.query)[i] EXCEPT !.negate = FALSE])
        /\ NegatedQueried =>
              /\ pc = "failed" => err = "StoreUnavailable"
              /\ pc = "done" =>
                    Range(ret) =
                        {r \in PartitionRecords(op.query) :
                            ~PredicateHolds(
                                [Predicates(op.query)[1] EXCEPT !.negate = FALSE], r)}

\* C15: in the command's merged maps every placeholder a key, predicate or
\* projection binding generated still resolves to that binding's name or
\* value.
C15_NoPlaceholderCollision ==
    op.name = "getItems" =>
        LET input == queryCommandInput(op.query)
            names == input.ExpressionAttributeNames
            values == input.ExpressionAttributeValues
            projected == IF op.query.projectedAttributes = None THEN <<>>
                         ELSE op.query.projectedAttributes[1]
        IN  /\ names["#" \o PK_ATTRIBUTE] = PK_ATTRIBUTE_NAME(op.query)
            /\ values[":" \o PK_ATTRIBUTE] = <<"N", op.query.pk>>
            /\ Truthy(op.query.sk) =>
                    /\ names["#" \o SK_ATTRIBUTE] = SK_ATTRIBUTE_NAME(op.query)
                    /\ values[":" \o SK_ATTRIBUTE] = <<"N", op.query.sk>>
            /\ \A i \in DOMAIN Predicates(op.query) :
                    /\ names["#" \o expressionAttributeKey(Predicates(op.query)[i].attribute)]
                            = Predicates(op.query)[i].attribute
                    /\ \A ph \in DOMAIN mapFilterExpressionValues(Predicates(op.query)[i]) :
                            values[ph] =
                                <<"N", mapFilterExpressionValues(Predicates(op.query)[i])[ph]>>
            /\ \A i \in DOMAIN projected :
                    names["#" \o expressionAttributeKey(projected[i])] = projected[i]

\* C16: a query without predicates, filterExpressions omitted or empty, sends
\* no filter clause and only the key's placeholders, and resolves with every
\* record that has the query's keys.
C16_NoPredicatesNoFilter ==
    (/\ op.name = "getItems"
     /\ Predicates(op.query) = <<>>
     /\ op.query.projectedAttributes = None) =>
        /\ queryCommandInput(op.query).FilterExpression = None
        /\ DOMAIN queryCommandInput(op.query).ExpressionAttributeNames
                = DOMAIN keyExpressionAttributeNames(op.query)
        /\ DOMAIN queryCommandInput(op.query).ExpressionAttributeValues
                = DOMAIN keyExpressionAttributeValues(op.query)
        /\ pc = "failed" => err = "StoreUnavailable"
        /\ (pc = "done" /\ op.query.index = None) =>
                Range(ret) = {r \in StoredRecords : QueryMatches(op.query, r)}

----------------------------------------------------------------------------
(* Claims about the keys of an index query *)

\* the items of the index pages answered so far
IndexPageItems == flat([i \in DOMAIN pages |-> pages[i].Items])

\* C17: every key an index query collects has exactly the table's key
\* attributes, hash and range, and every index page item that carries them
\* yields the key with the item's values.
C17_IndexKeysCarryTableKey ==
    IndexQueried =>
        /\ \A j \in DOMAIN collected : DOMAIN collected[j] = KeySchema
        /\ \A i \in DOMAIN IndexPageItems :
                KeySchema \subseteq DOMAIN IndexPageItems[i] =>
                    \E j \in DOMAIN collected :
                        collected[j] = [n \in KeySchema |-> IndexPageItems[i][n][2]]

\* C18: no key collected by an index query, and none sent in a batch command,
\* lacks the hash key attribute or has it undefined, and the query does not
\* fail over an item without it.
C18_ItemsWithoutHashKeyDropped ==
    IndexQueried =>
        /\ \A j \in DOMAIN collected :
                /\ PK_ATTRIBUTE \in DOMAIN collected[j]
                /\ collected[j][PK_ATTRIBUTE] # Undefined
        /\ \A i \in DOMAIN chunks : chunks[i].error # "MarshallError"

----------------------------------------------------------------------------
(* Claims about deleteItem *)

\* C19: a deleteItem call on a key that has a record completes, and when it
\* has completed the record is gone from the table; a record comes to be
\* stored under a key only by a putItem or updateItem call on that key; and
\* getItem on a key without a record resolves with undefined.
C19_DeletedRecordIsGone ==
    /\ []((op.name = "deleteItem" /\ pc \in {"done", "failed"}) =>
            KeyTuple(op.key) \notin DOMAIN store)
    /\ [][\A k \in DOMAIN store' \ DOMAIN store :
            /\ op'.name \in {"putItem", "updateItem"}
            /\ KeyTuple(op'.key) = k]_vars
    /\ []((/\ op.name = "getItem"
           /\ pc = "done"
           /\ KeyTuple(op.key) \notin DOMAIN store) => ret = <<>>)

\* deleteItem has completed on a key that had a record, which is gone
C19_Witness ==
    /\ op.name = "deleteItem"
    /\ pc = "done"
    /\ ret # <<>>
    /\ DELETED_AT_ATTRIBUTE \in DOMAIN ret[1]
    /\ KeyTuple(op.key) \notin DOMAIN store

\* C20: a deleteItem call on a key of the table that has no record does not
\* fail, and no record is stored under the key by it.
C20_DeleteMissingIsNoError ==
    [][(/\ op'.name = "deleteItem"
        /\ pc \in {"idle", "done", "failed"}
        /\ canMarshall(op'.key)
        /\ KeyTuple(op'.key) \notin DOMAIN store) =>
            /\ pc' # "failed"
            /\ KeyTuple(op'.key) \notin DOMAIN store']_vars

----------------------------------------------------------------------------
(* Claims about putItem, updateItem and deleteItem together *)

\* the record stored under key tuple k, or <<>>
StoredAt(table, k) == IF k \in DOMAIN table THEN <<table[k]>> ELSE <<>>

\* C21: whatever is stored under a key changes only in a step of a putItem,
\* updateItem or deleteItem call on that key.
C21_OtherKeysUntouched ==
    [][\A k \in DOMAIN store \cup DOMAIN store' :
            StoredAt(store', k) # StoredAt(store, k) =>
                /\ op'.name \in {"putItem", "updateItem", "deleteItem"}
                /\ DOMAIN op'.key = KeySchema
                /\ KeyTuple(op'.key) = k]_vars

\* a record has been deleted while the record under another key stays
C21_Witness ==
    /\ op.name = "deleteItem"
    /\ pc = "done"
    /\ ret # <<>>
    /\ KeyTuple(op.key) \notin DOMAIN store
    /\ DOMAIN store # {}

\* updateItem(key, updates, remove) as the record it should leave: r with the
\* defined updates set and the removed attributes deleted
UpdatedRecord(r, updates, remove) ==
    LET defined == {i \in DOMAIN updates : updates[i][2] # Undefined}
        set == {updates[i][1] : i \in defined}
        removed == IF remove = None THEN {} ELSE Range(remove[1])
    IN  [a \in (DOMAIN r \cup set) \ removed |->
            IF a \in set
            THEN updates[CHOOSE i \in defined : updates[i][1] = a][2]
            ELSE r[a]]

\* the updates and the removals name different attributes, none of the key
UpdateConsistent(updates, remove) ==
    LET set == {updates[i][1] : i \in {j \in DOMAIN updates : updates[j][2] # Undefined}}
        removed == IF remove = None THEN {} ELSE Range(remove[1])
    IN  set \cap removed = {} /\ (set \cup removed) \cap KeySchema = {}

\* a step that is the call of updateItem on a key with a stored record
UpdateCallOnStored ==
    /\ Callable
    /\ op'.name = "updateItem"
    /\ DOMAIN op'.key = KeySchema
    /\ KeyTuple(op'.key) \in DOMAIN store
    /\ UpdateConsistent(op'.updates, op'.remove)

\* C22: updateItem on a stored record r stores exactly r with the defined
\* updates set and the removed attributes deleted, everything else unchanged,
\* and returns the record then stored.
C22_UpdateStoresExactlyTheChanges ==
    [][/\ UpdateCallOnStored =>
            /\ pc' = "updateItem.updateItem.then"
            /\ KeyTuple(op'.key) \in DOMAIN store'
            /\ unmarshall(store'[KeyTuple(op'.key)])
                = UpdatedRecord(unmarshall(store[KeyTuple(op'.key)]),
                                op'.updates, op'.remove)
       /\ pc = "updateItem.updateItem.then" =>
            /\ pc' = "done"
            /\ ret' = <<unmarshall(store[KeyTuple(op.key)])>>]_vars

\* C23: updateItem on a key with no stored record does not fail; it creates
\* the record of the key attributes and the defined updates, and returns it.
C23_UpdateMissingCreates ==
    [][(/\ Callable
        /\ op'.name = "updateItem"
        /\ canMarshall(op'.key)
        /\ KeyTuple(op'.key) \notin DOMAIN store
        /\ op'.remove = None
        /\ UpdateConsistent(op'.updates, op'.remove)) =>
            /\ pc' = "updateItem.updateItem.then"
            /\ KeyTuple(op'.key) \in DOMAIN store'
            /\ unmarshall(store'[KeyTuple(op'.key)])
                = UpdatedRecord(op'.key, op'.updates, op'.remove)]_vars

----------------------------------------------------------------------------
(* Claims about projections and about attribute names with "-" *)

ProjectionQueried ==
    /\ op.name = "getItems"
    /\ op.query.index = None
    /\ op.query.projectedAttributes # None

\* the record restricted to the attributes projected
Projected(record, attributes) ==
    [a \in DOMAIN record \cap Range(attributes) |-> record[a]]

\* C24: a projection on a table query compiles to the comma-joined
\* #<sanitized name> placeholders, each mapped to its real name, and every
\* returned record is the stored record restricted to the projected
\* attributes; without projection the clause is absent and full records are
\* returned.
C24_ProjectionOnlyProjected ==
    /\ ProjectionQueried =>
        LET attributes == op.query.projectedAttributes[1]
            input == queryCommandInput(op.query)
        IN  /\ input.ProjectionExpression
                = Some(JoinTokens([i \in DOMAIN attributes |->
                            <<"#" \o expressionAttributeKey(attributes[i])>>], <<",">>))
            /\ \A i \in DOMAIN attributes :
                    input.ExpressionAttributeNames[
                        "#" \o expressionAttributeKey(attributes[i])] = attributes[i]
            /\ (pc = "failed" /\ op.query.filterExpressions = None)
                    => err = "StoreUnavailable"
            /\ pc = "done" =>
                    /\ Len(ret) = Cardinality({r \in StoredRecords : QueryMatches(op.query, r)})
                    /\ Range(ret) = {Projected(r, attributes) :
                                        r \in {q \in StoredRecords : QueryMatches(op.query, q)}}
    /\ TableQueried =>
        /\ queryCommandInput(op.query).ProjectionExpression = None
        /\ pc = "done" => \A j \in DOMAIN ret : ret[j] \in StoredRecords

\* the attributes an updateItem call sets and removes
UpdateSet(updates) ==
    {updates[i][1] : i \in {j \in DOMAIN updates : updates[j][2] # Undefined}}

UpdateRemoved(remove) == IF remove = None THEN {} ELSE Range(remove[1])

HasHyphen(name) == \E i \in DOMAIN Chars(name) : Chars(name)[i] = "-"

\* C26: for an attribute whose name contains "-", every placeholder uses
\* the name with "_" for "-" and the name map maps the token back to the raw
\* name, so that updateItem and filter predicates on it write and read the
\* attribute stored under the raw name.
C26_HyphenatedNamesResolve ==
    /\ (op.name = "updateItem" /\ UpdateConsistent(op.updates, op.remove)) =>
        /\ \A now \in Times :
            \A a \in UpdateSet(op.updates) \cup UpdateRemoved(op.remove) :
                LET names == UpdateItemInput(op.key, op.updates, op.remove, now)
                                .ExpressionAttributeNames
                IN  /\ ("#" \o expressionAttributeKey(a)) \in DOMAIN names
                    /\ names["#" \o expressionAttributeKey(a)] = a
        /\ (pc = "done" /\ ret # <<>>) =>
            /\ \A a \in UpdateRemoved(op.remove) : a \notin DOMAIN ret[1]
            /\ \A i \in DOMAIN op.updates :
                    op.updates[i][2] # Undefined =>
                        /\ op.updates[i][1] \in DOMAIN ret[1]
                        /\ ret[1][op.updates[i][1]] = op.updates[i][2]
    /\ (/\ op.name = "getItems"
        /\ op.query.projectedAttributes = None
        /\ Len(Predicates(op.query)) = 1
        /\ HasHyphen(Predicates(op.query)[1].attribute)) =>
        LET predicate == Predicates(op.query)[1]
            input == queryCommandInput(op.query)
        IN  /\ input.ExpressionAttributeNames[
                    "#" \o expressionAttributeKey(predicate.attribute)]
                        = predicate.attribute
            /\ ValuesUsed(input) = DOMAIN input.ExpressionAttributeValues
            /\ pc = "failed" => err = "StoreUnavailable"
            /\ pc = "done" =>
                    Range(ret) = {r \in StoredRecords : QueryMatches(op.query, r)}

----------------------------------------------------------------------------
(* Claims about the store calls of batchGetItems and of index queries *)

\* C25: batchGetItems of an empty key list returns an empty result without
\* a store call, and an index query whose pages hold no item returns an
\* empty result without a batch-get call.
C25_NothingToGetNoBatchGet ==
    /\ (BatchCalled /\ op.keys = <<>>) =>
            pc = "done" /\ ret = <<>> /\ chunks = <<>>
    /\ (IndexQueried /\ PagingComplete /\ IndexPageItems = <<>>) =>
            pc = "done" /\ ret = <<>> /\ chunks = <<>>

\* an index query on a table with records has been answered with no item
C25_Witness ==
    /\ IndexQueried
    /\ PagingComplete
    /\ IndexPageItems = <<>>
    /\ store # <<>>
    /\ pc = "done"

\* the keys of the batch-get commands issued, in order
ChunkKeys == flat([i \in DOMAIN chunks |-> chunks[i].Keys])

\* C27: on an index query no batch-get command is issued before the last
\* index page has been answered, and the commands then issued carry the keys
\* collected from all pages; a query without index issues no batch-get
\* command.
C27_BatchGetAfterLastIndexPage ==
    op.name = "getItems" =>
        /\ op.query.index = None => chunks = <<>>
        /\ ~PagingComplete => chunks = <<>>
        /\ pc \in {"batchGetItems.all"} => PagingComplete
        /\ (chunks # <<>> /\ \A i \in DOMAIN chunks : chunks[i].state # "rejected") =>
                ChunkKeys = [j \in DOMAIN collected |-> marshall(collected[j])]

\* an index query of two pages has been drained and commands are issued
C27_Witness ==
    /\ IndexQueried
    /\ Len(pages) >= 2
    /\ PagingComplete
    /\ pages[1].Items # <<>>
    /\ Len(chunks) >= 2

----------------------------------------------------------------------------
(* Claims about consumedCapacityMiddleware *)

\* C28: when next succeeds, onConsumedCapacity is invoked exactly once, after
\* the store's response and before the response is handed to the caller,
\* with the ReturnConsumedCapacity of the input and the ConsumedCapacity of
\* the output (undefined when there is none); the response is handed over
\* unmodified, and only after the callback's promise has resolved.
C28_CallbackOncePerResponse ==
    [][/\ consumedCapacityRegister' # consumedCapacityRegister =>
            /\ pc = "middleware.next"
            /\ pc' = "middleware.onConsumedCapacity"
            /\ op'.response # None
            /\ consumedCapacityRegister' =
                Append(consumedCapacityRegister,
                    [ReturnConsumedCapacity |->
                        IF "ReturnConsumedCapacity" \in DOMAIN op.input
                        THEN Some(op.input.ReturnConsumedCapacity) ELSE None,
                     ConsumedCapacity |->
                        IF "ConsumedCapacity" \in DOMAIN op'.response[1].output
                        THEN Some(op'.response[1].output.ConsumedCapacity) ELSE None])
       /\ (pc = "middleware.next" /\ pc' # "failed") =>
            consumedCapacityRegister' # consumedCapacityRegister
       /\ (op'.name = "send" /\ pc' = "done") =>
            /\ pc = "middleware.onConsumedCapacity"
            /\ consumedCapacityRegister' = consumedCapacityRegister
            /\ op.response # None
            /\ ret' = op.response]_vars

\* a command whose output carries no capacity has been handed to the caller
\* after the callback was invoked with ConsumedCapacity undefined
C28_Witness ==
    /\ op.name = "send"
    /\ pc = "done"
    /\ ret # <<>>
    /\ "ConsumedCapacity" \notin DOMAIN ret[1].output
    /\ "ReturnConsumedCapacity" \in DOMAIN op.input
    /\ consumedCapacityRegister # <<>>
    /\ consumedCapacityRegister[Len(consumedCapacityRegister)].ConsumedCapacity = None

\* C29: the response reaches the caller only if next and the callback both
\* succeeded; when next fails the callback is not invoked and next's failure
\* propagates; when the callback rejects the caller gets the callback's
\* rejection although the store operation has taken effect.
C29_FailuresPropagate ==
    [][/\ (op'.name = "send" /\ ret' # <<>>) =>
            /\ pc' = "done"
            /\ pc = "middleware.onConsumedCapacity"
            /\ op'.response # None
            /\ op'.callback = "resolved"
       /\ (op'.name = "send" /\ op'.callback = "resolved") =>
            (pc' = "done" /\ ret' = op'.response)
       /\ (pc = "middleware.next" /\ pc' = "failed") =>
            /\ err' \in NextErrors
            /\ ret' = <<>>
            /\ consumedCapacityRegister' = consumedCapacityRegister
            /\ store' = store
       /\ (op'.name = "send" /\ op'.callback = "rejected") =>
            /\ pc' = "failed"
            /\ err' = "CallbackError"
            /\ ret' = <<>>
            /\ KeyOf(op.input.Item) \in DOMAIN store'
            /\ store'[KeyOf(op.input.Item)] = op.input.Item]_vars

\* the callback has rejected after the command changed the table
C29_Witness ==
    /\ op.name = "send"
    /\ pc = "failed"
    /\ err = "CallbackError"
    /\ op.callback = "rejected"
    /\ Len(consumedCapacityRegister) = 1
    /\ store \notin InitTables

----------------------------------------------------------------------------
(* Claims about putItem beside another client *)

\* C30: putItem is two store steps, the write and the read-back; what it
\* returns is the content of the store under the key at the read-back, so
\* that with another client's putItem or deleteItem on the key in between it
\* returns that client's record or undefined.
C30_PutReturnsStoreAtReadBack ==
    [][/\ (pc # "putItem.then" /\ pc' = "putItem.then") =>
            /\ ret' = <<>>
            /\ StoredAt(store', KeyTuple(op'.key))
                = <<marshall(PutRecord(op'.key, op'.record))>>
       /\ (op'.name = "putItem" /\ pc # "done" /\ pc' = "done") =>
            pc = "putItem.then"
       /\ (pc = "putItem.then" /\ pc' # "putItem.then") =>
            /\ pc' = "done"
            /\ store' = store
            /\ ret' = IF KeyTuple(op.key) \in DOMAIN store
                      THEN <<unmarshall(store[KeyTuple(op.key)])>>
                      ELSE <<>>]_vars

\* putItem has returned the record another client wrote under the key after
\* this client's write
C30_Witness ==
    /\ op.name = "putItem"
    /\ pc = "done"
    /\ ret # <<>>
    /\ ret[1] # PutRecord(op.key, op.record)
    /\ ret[1][PK_ATTRIBUTE] = op.key[PK_ATTRIBUTE]
    /\ ret[1][SK_ATTRIBUTE] = op.key[SK_ATTRIBUTE]

====
